---- MODULE Spec2Model ----
(***************************************************************************)
(* Vigil triage core: Engine.Run (the bounded tool-calling loop), the      *)
(* Service (Submit, the async triage task, the per-turn callback) and the  *)
(* in-memory Store.                                                        *)
(*                                                                         *)
(* Go strings that are inspected (analysis, tool_result content, error     *)
(* messages) are sequences of words, so that strings.Contains and          *)
(* fmt.Sprintf are computed; identifiers (ids, names, statuses) are atoms. *)
(***************************************************************************)
EXTENDS Integers, Sequences, FiniteSets, TLC

\* ------------------------------------------------------------ bounds ----
\* Number of Service.Submit invocations (each may run concurrently).
MaxSubmits == 2
\* The provider answers its first MaxFreeCalls calls of a run freely; from
\* then on it repeats its last answer (tool outcomes included).
MaxFreeCalls == 2

\* Number of calls a direct caller makes on the Store.
MaxStoreOps == 6

\* The longest vendor response translated by the provider adapter, in blocks.
MaxBlocks == 3

\* Number of Service.Submit invocations when collaborators may fail.
MaxFaultySubmits == 1

\* Number of leading turns of a run whose AppendTurn may fail.
MaxFaultyTurns == 4

\* ------------------------------------------------- program constants ----
MaxToolRounds == 15
MaxTokens == 100000
ResponseTokens == 4096

StatusPending == "pending"
StatusInProgress == "in_progress"
StatusComplete == "complete"
StatusFailed == "failed"

StopEnd == "end_turn"
StopToolUse == "tool_use"

\* Provider calls of one run are capped so that a run that never returns
\* stays finite; the cap is beyond every call a returning run can make here.
MaxCalls == MaxFreeCalls + MaxToolRounds + 1

\* ------------------------------------------------------ content blocks --
\* ContentBlock is one struct with optional fields keyed by Type.
Block(t, txt, id, name, tuid, content, isErr) ==
    [type |-> t, text |-> txt, id |-> id, name |-> name,
     toolUseID |-> tuid, content |-> content, isError |-> isErr]

TextBlock(txt) == Block("text", txt, "", "", "", <<>>, FALSE)
ToolResultBlock_IdDropped(tuid, content, isErr) ==
    Block("tool_result", <<>>, "", "", "", content, isErr)
ToolUseBlock(id, name) == Block("tool_use", <<>>, id, name, "", <<>>, FALSE)
ToolResultBlock(tuid, content, isErr) == Block("tool_result", <<>>, "", "", tuid, content, isErr)

Message(role, content) == [role |-> role, content |-> content]

\* Turn.Usage is a pointer: <<>> is nil, <<in, out>> is &resp.Usage.
Turn(role, content, usage, stop) ==
    [role |-> role, content |-> content, usage |-> usage, stopReason |-> stop]

\* strings.Contains on word sequences
Contains(s, sub) ==
    \E i \in 0..(Len(s) - Len(sub)) : SubSeq(s, i + 1, i + Len(sub)) = sub

\* ------------------------------------------------------- tool registry --
\* The registry built at startup: two registered tools.
Registered == {"query_metrics", "query_logs"}
\* Names a provider may ask for, in lexicographic order (slices.Sort).
ToolNames == <<"nonexistent_tool", "query_logs", "query_metrics">>

RegistryGet_AnyName(name) == TRUE
RegistryGet(name) == name \in Registered

\* ------------------------------------------------------------ provider --
Response(content, stop, usage) ==
    [isErr |-> FALSE, msg |-> <<>>, content |-> content, stopReason |-> stop, usage |-> usage]
ErrResponse(msg) ==
    [isErr |-> TRUE, msg |-> msg, content |-> <<>>, stopReason |-> "", usage |-> <<0, 0>>]
NoResp == ErrResponse(<<>>)

\* The contents a provider may answer with.
ContentChoices ==
    { <<>>,
      <<TextBlock(<<"all", "good">>)>>,
      <<ToolUseBlock("c1", "query_metrics")>>,
      <<TextBlock(<<"checking">>), ToolUseBlock("c1", "query_logs"),
        ToolUseBlock("c2", "nonexistent_tool"), TextBlock(<<"done">>)>> }
StopChoices == {StopEnd, StopToolUse, "max_tokens"}
UsageChoices == { <<0, 0>>, <<30000, 30000>>, <<60000, 40000>> }

Responses ==
    { Response(c, s, u) : c \in ContentChoices, s \in StopChoices, u \in UsageChoices }
        \cup { ErrResponse(<<"api", "key", "expired">>) }

\* What the Service's runs are answered with: one short run per triage.
SvcResponses ==
    { Response(<<TextBlock(<<"all", "good">>)>>, StopEnd, <<100, 50>>),
      Response(<<ToolUseBlock("c1", "query_metrics")>>, StopToolUse, <<60000, 40000>>),
      ErrResponse(<<"api", "key", "expired">>) }

\* Answers that keep a run going for three tool rounds before the token
\* budget ends it.
ToolRoundResponses ==
    { Response(<<TextBlock(<<"all", "good">>)>>, StopEnd, <<100, 50>>),
      Response(<<ToolUseBlock("c1", "query_metrics")>>, StopToolUse, <<20000, 15000>>) }

\* Answers of a provider that always answers with end_turn, tool_use or an
\* error; one of its tool_use answers carries no tool_use block and no usage.
LiveResponses ==
    SvcResponses
        \cup { Response(<<TextBlock(<<"checking">>)>>, StopToolUse, <<0, 0>>) }

\* ------------------------------------------------------- engine: data ---
buildInitialPrompt == <<"Alert:", "HighCPU">>

ToolBudgetAnalysis == <<"Triage", "terminated:", "tool", "call", "budget", "exhausted">>
TokenBudgetAnalysis == <<"Triage", "terminated:", "token", "budget", "exhausted">>
LLMErrorAnalysis(msg) == <<"LLM", "error:">> \o msg

NoRunResult ==
    [status |-> "", analysis |-> <<>>, toolsUsed |-> <<>>, conversation |-> <<>>,
     completedAt |-> 0, tokensUsed |-> 0, inputTokensUsed |-> 0,
     outputTokensUsed |-> 0, toolCalls |-> 0]

\* sortedKeys: the keys of the set, sorted.
RECURSIVE SortedFrom(_, _)
SortedFrom(i, S) ==
    IF i > Len(ToolNames) THEN <<>>
    ELSE (IF ToolNames[i] \in S THEN <<ToolNames[i]>> ELSE <<>>) \o SortedFrom(i + 1, S)
sortedKeys(S) == SortedFrom(1, S)

\* The locals of one Engine.Run, the provider's side of the run (calls,
\* last, lastExec) and what an observer of the run has counted.
EngIdle ==
    [pc |-> "idle", cb |-> "nil",
     messages |-> <<>>, conv |-> <<>>,
     totalInputTokens |-> 0, totalOutputTokens |-> 0, totalToolCalls |-> 0,
     toolsUsedSet |-> {}, chatSeq |-> 0,
     resp |-> NoResp, toolResults |-> <<>>, rr |-> NoRunResult,
     calls |-> 0, last |-> NoResp, lastExec |-> <<>>,
     exit |-> "", toolExecs |-> 0, toolUseResponses |-> 0,
     progressAtCall |-> 0, observed |-> <<>>, warned |-> 0,
     completeEvents |-> <<>>, toolCallEvents |-> <<>>, onTurnErr |-> FALSE]

\* Engine.Run up to the loop: the initial user message, zeroed totals.
RunStartLocals(cb) ==
    [EngIdle EXCEPT !.pc = "check", !.cb = cb,
        !.messages = <<Message("user", <<TextBlock(buildInitialPrompt)>>)>>]

TokenTotal(e) == e.totalInputTokens + e.totalOutputTokens

\* The RunResult literal every return statement of Run builds.
MkRunResult(e, status, analysis, now) ==
    [status |-> status, analysis |-> analysis,
     toolsUsed |-> sortedKeys(e.toolsUsedSet), conversation |-> e.conv,
     completedAt |-> now, tokensUsed |-> TokenTotal(e),
     inputTokensUsed |-> e.totalInputTokens,
     outputTokensUsed |-> e.totalOutputTokens, toolCalls |-> e.totalToolCalls]

\* EngineHooks.complete with OnComplete set: the hook receives the event.
\* completeEvents is what the hook has been handed during the run.
complete_HookSkipped(e, status) == e
complete(e, status) ==
    [e EXCEPT !.completeEvents = Append(@,
        [status |-> status, tokens |-> TokenTotal(e), toolCalls |-> e.totalToolCalls])]

\* A return statement of Run: hooks.complete with the status, then the
\* RunResult literal with the same status.
Return(e, status, analysis, now, exit) ==
    [complete(e, status) EXCEPT
        !.pc = "done", !.rr = MkRunResult(e, status, analysis, now), !.exit = exit]

\* --------------------------------------------------- engine: the loop ---
\* Top of the loop: the two budget checks that precede every provider call.
PreCheck_ToolCallsOffByOne(e, now) ==
    IF e.totalToolCalls > MaxToolRounds
    THEN Return(e, StatusComplete, ToolBudgetAnalysis, now, "tool_budget")
    ELSE IF TokenTotal(e) >= MaxTokens
    THEN Return(e, StatusComplete, TokenBudgetAnalysis, now, "token_budget")
    ELSE [e EXCEPT !.pc = "send"]
PreCheck_TokensOffByOne(e, now) ==
    IF e.totalToolCalls >= MaxToolRounds
    THEN Return(e, StatusComplete, ToolBudgetAnalysis, now, "tool_budget")
    ELSE IF TokenTotal(e) > MaxTokens
    THEN Return(e, StatusComplete, TokenBudgetAnalysis, now, "token_budget")
    ELSE [e EXCEPT !.pc = "send"]
PreCheck(e, now) ==
    IF e.totalToolCalls >= MaxToolRounds
    THEN Return(e, StatusComplete, ToolBudgetAnalysis, now, "tool_budget")
    ELSE IF TokenTotal(e) >= MaxTokens
    THEN Return(e, StatusComplete, TokenBudgetAnalysis, now, "token_budget")
    ELSE [e EXCEPT !.pc = "send"]

\* provider.Send has returned resp: the error return, or the accounting and
\* the assistant turn appended to conv.
OnResponse_OutputUncounted(e, resp, now) ==
    LET sent == [e EXCEPT !.calls = @ + 1, !.last = resp,
                          !.progressAtCall = TokenTotal(e) + e.totalToolCalls]
    IN  IF resp.isErr
        THEN Return(sent, StatusFailed, LLMErrorAnalysis(resp.msg), now, "llm_error")
        ELSE [sent EXCEPT
                !.totalInputTokens = @ + resp.usage[1],
                !.chatSeq = @ + 1,
                !.conv = Append(@, Turn("assistant", resp.content, resp.usage, resp.stopReason)),
                !.resp = resp,
                !.toolUseResponses = @ + (IF resp.stopReason = StopToolUse THEN 1 ELSE 0),
                !.pc = "notifyA"]
OnResponse_ErrorRecorded(e, resp, now) ==
    LET sent == [e EXCEPT !.calls = @ + 1, !.last = resp,
                          !.progressAtCall = TokenTotal(e) + e.totalToolCalls]
    IN  IF resp.isErr
        THEN Return([sent EXCEPT !.conv = Append(@, Turn("assistant", <<>>, <<0, 0>>, ""))],
                    StatusFailed, LLMErrorAnalysis(resp.msg), now, "llm_error")
        ELSE [sent EXCEPT
                !.totalInputTokens = @ + resp.usage[1],
                !.totalOutputTokens = @ + resp.usage[2],
                !.chatSeq = @ + 1,
                !.conv = Append(@, Turn("assistant", resp.content, resp.usage, resp.stopReason)),
                !.resp = resp,
                !.toolUseResponses = @ + (IF resp.stopReason = StopToolUse THEN 1 ELSE 0),
                !.pc = "notifyA"]
OnResponse(e, resp, now) ==
    LET sent == [e EXCEPT !.calls = @ + 1, !.last = resp,
                          !.progressAtCall = TokenTotal(e) + e.totalToolCalls]
    IN  IF resp.isErr
        THEN Return(sent, StatusFailed, LLMErrorAnalysis(resp.msg), now, "llm_error")
        ELSE [sent EXCEPT
                !.totalInputTokens = @ + resp.usage[1],
                !.totalOutputTokens = @ + resp.usage[2],
                !.chatSeq = @ + 1,
                !.conv = Append(@, Turn("assistant", resp.content, resp.usage, resp.stopReason)),
                !.resp = resp,
                !.toolUseResponses = @ + (IF resp.stopReason = StopToolUse THEN 1 ELSE 0),
                !.pc = "notifyA"]

\* The analysis of an end_turn response: the text of its last text block.
RECURSIVE LastTextFrom(_, _, _)
LastTextFrom(content, i, analysis) ==
    IF i > Len(content) THEN analysis
    ELSE LastTextFrom(content, i + 1,
            IF content[i].type = "text" THEN content[i].text ELSE analysis)
LastText(content) == LastTextFrom(content, 1, <<>>)

\* After notifyTurn for the assistant turn: the message pushed, then the
\* dispatch on the stop reason (end_turn returns, tool_use runs the tools,
\* anything else falls through to the top of the loop).
AfterAssistantNotify(e, now) ==
    LET pushed == [e EXCEPT !.messages = Append(@, Message("assistant", e.resp.content))]
    IN  IF e.resp.stopReason = StopEnd
        THEN Return(pushed, StatusComplete, LastText(e.resp.content), now, "end_turn")
        ELSE IF e.resp.stopReason = StopToolUse
        THEN [pushed EXCEPT !.pc = "tools"]
        ELSE [pushed EXCEPT !.pc = "check"]

\* tool.Execute for a registered tool: exec[i] says how the i-th block's
\* Execute ends.
ToolOutput == <<"ok">>
ToolError == <<"boom">>

\* EngineHooks.toolCall with an OnToolCall that records what it is handed:
\* the tool name, whether the duration is a measured time.Since (the unknown
\* tool path passes the literal 0), the output size and the error flag.
toolCall_NotForErrors(acc, name, timed, outputBytes, isErr) ==
    IF isErr THEN acc
    ELSE [acc EXCEPT !.hooks = Append(@, [name |-> name, timed |-> timed,
                                          outputBytes |-> outputBytes, isErr |-> isErr])]
toolCall(acc, name, timed, outputBytes, isErr) ==
    [acc EXCEPT !.hooks = Append(@, [name |-> name, timed |-> timed,
                                     outputBytes |-> outputBytes, isErr |-> isErr])]

\* executeToolCalls: one pass over content in order; acc carries results,
\* calls, seen, the number of Execute invocations and the OnToolCall events.
RECURSIVE ExecFrom(_, _, _, _)
ExecFrom(content, i, exec, acc) ==
    IF i > Len(content) THEN acc
    ELSE LET block == content[i]
         IN  IF block.type # "tool_use"
             THEN ExecFrom(content, i + 1, exec, acc)
             ELSE LET counted == [acc EXCEPT !.calls = @ + 1,
                                             !.seen = @ \cup {block.name}]
                  IN  IF ~RegistryGet(block.name)
                      THEN ExecFrom(content, i + 1, exec,
                             [toolCall(counted, block.name, FALSE, 0, TRUE)
                                EXCEPT !.results = Append(@,
                                ToolResultBlock(block.id, <<"unknown", "tool:", block.name>>, TRUE))])
                      ELSE IF exec[i] = "err"
                      THEN ExecFrom(content, i + 1, exec,
                             [toolCall(counted, block.name, TRUE, 0, TRUE)
                                EXCEPT !.execs = @ + 1, !.results = Append(@,
                                ToolResultBlock(block.id, <<"tool", "error:">> \o ToolError, TRUE))])
                      ELSE ExecFrom(content, i + 1, exec,
                             [toolCall(counted, block.name, TRUE, Len(ToolOutput), FALSE)
                                EXCEPT !.execs = @ + 1, !.results = Append(@,
                                ToolResultBlock(block.id, ToolOutput, FALSE))])
executeToolCalls(content, seen, exec) ==
    ExecFrom(content, 1, exec,
             [results |-> <<>>, calls |-> 0, seen |-> seen, execs |-> 0, hooks |-> <<>>])

\* The tool_use branch: the batch executed, the totals, the user turn.
OnToolBatch_Uncounted(e, exec) ==
    LET x == executeToolCalls(e.resp.content, e.toolsUsedSet, exec)
    IN  [e EXCEPT !.toolsUsedSet = x.seen,
                  !.toolExecs = @ + x.execs,
                  !.toolCallEvents = @ \o x.hooks,
                  !.lastExec = exec,
                  !.toolResults = x.results,
                  !.conv = Append(@, Turn("user", x.results, <<>>, "")),
                  !.pc = "notifyU"]
\* (a batch cut short at the cap: only the tool_use blocks that fit below
\* MaxToolRounds are executed)
RECURSIVE FitsBelowCap(_, _, _)
FitsBelowCap(content, i, room) ==
    IF i > Len(content) THEN <<>>
    ELSE IF content[i].type = "tool_use"
    THEN IF room = 0 THEN <<>>
         ELSE <<content[i]>> \o FitsBelowCap(content, i + 1, room - 1)
    ELSE <<content[i]>> \o FitsBelowCap(content, i + 1, room)
OnToolBatch_CappedInside(e, exec) ==
    LET x == executeToolCalls(
                FitsBelowCap(e.resp.content, 1, MaxToolRounds - e.totalToolCalls),
                e.toolsUsedSet, exec)
    IN  [e EXCEPT !.totalToolCalls = @ + x.calls,
                  !.toolsUsedSet = x.seen,
                  !.toolExecs = @ + x.execs,
                  !.toolCallEvents = @ \o x.hooks,
                  !.lastExec = exec,
                  !.toolResults = x.results,
                  !.conv = Append(@, Turn("user", x.results, <<>>, "")),
                  !.pc = "notifyU"]
OnToolBatch(e, exec) ==
    LET x == executeToolCalls(e.resp.content, e.toolsUsedSet, exec)
    IN  [e EXCEPT !.totalToolCalls = @ + x.calls,
                  !.toolsUsedSet = x.seen,
                  !.toolExecs = @ + x.execs,
                  !.toolCallEvents = @ \o x.hooks,
                  !.lastExec = exec,
                  !.toolResults = x.results,
                  !.conv = Append(@, Turn("user", x.results, <<>>, "")),
                  !.pc = "notifyU"]

\* After notifyTurn for the user turn: the results pushed, next iteration.
AfterUserNotify(e) ==
    [e EXCEPT !.messages = Append(@, Message("user", e.toolResults)), !.pc = "check"]

\* How the Execute calls of a batch may end: one outcome per registered
\* tool_use block.
ExecChoices(content) ==
    { x \in [1..Len(content) -> {"ok", "err"}] :
        \A i \in 1..Len(content) :
            (content[i].type # "tool_use" \/ ~RegistryGet(content[i].name)) => x[i] = "ok" }

\* ------------------------------------------------------------- state ----
Fingerprints == {"fp-1", "fp-2"}
Ids == 1..MaxSubmits
\* The specification of stuck triages has room for one more Submit.
AllCalls == 1..(MaxSubmits + 1)
NoId == 0
\* Run 0 is an Engine.Run called on its own; run t is the one of triage t.
StandaloneRun == 0

VARIABLES
    results,    \* memstore: triage id -> Result
    seen,       \* memstore: fingerprint -> triage id of the last Put
    nextId,     \* ulid.Make: ids are handed out in increasing order
    clock,      \* time.Now
    submits,    \* the Service.Submit invocations
    tasks,      \* the runTriage goroutines, by triage id
    eng,        \* the Engine.Run invocations, by run
    convs,      \* memstore: the Conversation objects, by address
    client,     \* a direct caller of the Store: what it holds and did last
    sdk         \* the provider adapter: a vendor response and its translation

vars == <<results, seen, nextId, clock, submits, tasks, eng, convs, client, sdk>>

\* ------------------------------------------------------------ memstore --
\* Result.Conversation is a pointer to a Conversation object; 0 is nil.
NilConv == 0

NoResult ==
    [present |-> FALSE, id |-> NoId, fingerprint |-> "", status |-> "",
     alert |-> "", severity |-> "", summary |-> "", analysis |-> <<>>,
     toolsUsed |-> <<>>, conversation |-> NilConv,
     createdAt |-> 0, completedAt |-> 0, tokensUsed |-> 0, toolCalls |-> 0]

NoConversation == [alloc |-> FALSE, turns |-> <<>>]

\* The turns reached through a Conversation pointer.
TurnsAt(cv, ptr) == IF ptr = NilConv THEN <<>> ELSE cv[ptr].turns

\* Store.Get: (cp, ok) with cp := *r, a copy of the struct: the copy's
\* Conversation field is the stored pointer.
StoreGet(res, id) == [ok |-> res[id].present, r |-> res[id]]

\* Store.GetByFingerprint: a struct copy of the result of the last id Put
\* for fp.
StoreGetByFingerprint(res, sn, fp) ==
    IF sn[fp] = NoId THEN [ok |-> FALSE, r |-> NoResult]
    ELSE [ok |-> TRUE, r |-> res[sn[fp]]]

\* Store.Put: a struct copy is stored; a nil Conversation pointer is
\* replaced by the stored one.
PutResults_Overwrites(res, r) == [res EXCEPT ![r.id] = [r EXCEPT !.present = TRUE]]
PutResults(res, r) ==
    LET cp == IF /\ r.conversation = NilConv
                 /\ res[r.id].present
                 /\ res[r.id].conversation # NilConv
              THEN [r EXCEPT !.conversation = res[r.id].conversation]
              ELSE r
    IN  [res EXCEPT ![r.id] = [cp EXCEPT !.present = TRUE]]
PutSeen(sn, r) == [sn EXCEPT ![r.fingerprint] = r.id]

\* The address of the &Conversation{} AppendTurn allocates for a Result:
\* the store allocates one object per Result at most (a stored pointer is
\* never set back to nil), so the object is named after the Result.
NewConversation(triageID) == triageID

\* Store.AppendTurn: no-op when the id is unknown; a nil Conversation is
\* allocated; a copy of the turn is appended to the object pointed to.
AppendTurnResults(res, triageID) ==
    IF ~res[triageID].present \/ res[triageID].conversation # NilConv THEN res
    ELSE [res EXCEPT ![triageID].conversation = NewConversation(triageID)]
AppendTurnConvs_Prepends(cv, res, triageID, turn) ==
    IF ~res[triageID].present THEN cv
    ELSE LET ptr == AppendTurnResults(res, triageID)[triageID].conversation
         IN  [cv EXCEPT ![ptr] = [alloc |-> TRUE, turns |-> <<turn>> \o @.turns]]
AppendTurnConvs(cv, res, triageID, turn) ==
    IF ~res[triageID].present THEN cv
    ELSE LET ptr == AppendTurnResults(res, triageID)[triageID].conversation
         IN  [cv EXCEPT ![ptr] = [alloc |-> TRUE, turns |-> Append(@.turns, turn)]]
AppendTurnMsgID(res, triageID, seq) == IF ~res[triageID].present THEN 0 ELSE seq

\* ------------------------------------------------------------- pgstore --
\* The rows of triage_runs are kept in results and the rows of messages, by
\* triage id and in seq order, in convs; a row holds no Conversation pointer.
PgActive(status) == status \in {StatusPending, StatusInProgress}

\* idx_triage_runs_active_fingerprint: the row r would be a second row of its
\* fingerprint with status pending or in_progress.
UniqueViolation_NotEnforced(res, r) == FALSE
UniqueViolation(res, r) ==
    /\ PgActive(r.status)
    /\ \E j \in DOMAIN res :
        /\ j # r.id
        /\ res[j].present
        /\ res[j].fingerprint = r.fingerprint
        /\ PgActive(res[j].status)

\* upsertTriage: INSERT ... ON CONFLICT (id) DO UPDATE; created_at and
\* tools_used are not among the columns updated or read back.
upsertTriage(res, r) ==
    [res EXCEPT ![r.id] = [r EXCEPT
        !.present = TRUE, !.conversation = NilConv, !.toolsUsed = <<>>,
        !.createdAt = IF res[r.id].present THEN res[r.id].createdAt ELSE r.createdAt]]

\* loadConversation: nil when the triage has no messages, else a new
\* Conversation holding copies of them.
loadConversation(cv, id) ==
    IF cv[id].turns = <<>> THEN NilConv ELSE [turns |-> cv[id].turns]

\* pgstore Get: the row scanned into a new Result, its messages loaded.
PgGet(res, cv, id) ==
    IF ~res[id].present THEN [ok |-> FALSE, r |-> NoResult]
    ELSE [ok |-> TRUE, r |-> [res[id] EXCEPT !.conversation = loadConversation(cv, id)]]

\* pgstore GetByFingerprint: ORDER BY created_at DESC LIMIT 1.
PgGetByFingerprint(res, cv, fp) ==
    LET rows == {i \in DOMAIN res : res[i].present /\ res[i].fingerprint = fp}
    IN  IF rows = {} THEN [ok |-> FALSE, r |-> NoResult]
        ELSE PgGet(res, cv, CHOOSE i \in rows :
                \A j \in rows : res[j].createdAt <= res[i].createdAt)

\* pgstore Put: the upsert in a transaction; a unique violation is returned
\* as the error and leaves the table as it was.
PgPut(res, r) ==
    IF UniqueViolation(res, r) THEN [err |-> TRUE, results |-> res]
    ELSE [err |-> FALSE, results |-> upsertTriage(res, r)]

\* pgstore AppendTurn: insertMessage; messages.triage_id references
\* triage_runs(id); the serial id of the new row is returned.
PgAppendTurn(res, cv, triageID, turn) ==
    IF ~res[triageID].present THEN [err |-> TRUE, msgID |-> 0, convs |-> cv]
    ELSE [err |-> FALSE,
          msgID |-> 1 + Len(cv[triageID].turns),
          convs |-> [cv EXCEPT ![triageID] =
                        [alloc |-> TRUE, turns |-> Append(@.turns, turn)]]]

\* ------------------------------------------- the Store of the Service ---
\* The Service calls its Store through the interface: st names the
\* implementation behind it. A call on the database fails (fail) when the
\* connection does or when its context is done; the in-memory store ignores
\* its context and returns no error.
MemStore == "memstore"
PgStore == "pgstore"

CallGet(st, res, cv, id, fail) ==
    IF st = MemStore
    THEN [err |-> FALSE, ok |-> StoreGet(res, id).ok, r |-> StoreGet(res, id).r]
    ELSE IF fail THEN [err |-> TRUE, ok |-> FALSE, r |-> NoResult]
    ELSE [err |-> FALSE, ok |-> PgGet(res, cv, id).ok, r |-> PgGet(res, cv, id).r]

CallGetByFingerprint(st, res, sn, cv, fp, fail) ==
    IF st = MemStore
    THEN [err |-> FALSE, ok |-> StoreGetByFingerprint(res, sn, fp).ok,
          r |-> StoreGetByFingerprint(res, sn, fp).r]
    ELSE IF fail THEN [err |-> TRUE, ok |-> FALSE, r |-> NoResult]
    ELSE [err |-> FALSE, ok |-> PgGetByFingerprint(res, cv, fp).ok,
          r |-> PgGetByFingerprint(res, cv, fp).r]

CallPut(st, res, sn, r, fail) ==
    IF st = MemStore
    THEN [err |-> FALSE, results |-> PutResults(res, r), seen |-> PutSeen(sn, r)]
    ELSE IF fail THEN [err |-> TRUE, results |-> res, seen |-> sn]
    ELSE [err |-> PgPut(res, r).err, results |-> PgPut(res, r).results, seen |-> sn]

CallAppendTurn(st, res, cv, triageID, seq, turn, fail) ==
    IF st = MemStore
    THEN [err |-> FALSE, msgID |-> AppendTurnMsgID(res, triageID, seq),
          results |-> AppendTurnResults(res, triageID),
          convs |-> AppendTurnConvs(cv, res, triageID, turn)]
    ELSE IF fail THEN [err |-> TRUE, msgID |-> 0, results |-> res, convs |-> cv]
    ELSE [err |-> PgAppendTurn(res, cv, triageID, turn).err,
          msgID |-> PgAppendTurn(res, cv, triageID, turn).msgID,
          results |-> res,
          convs |-> PgAppendTurn(res, cv, triageID, turn).convs]

\* ------------------------------------------------------------- service --
\* The alerts submitted: a firing one per fingerprint and a resolved one.
Alerts ==
    [status : {"firing"}, fingerprint : Fingerprints]
        \cup {[status |-> "resolved", fingerprint |-> "fp-1"]}
NoAlert == [status |-> "", fingerprint |-> ""]

NoSubmitResult == [id |-> NoId, skipped |-> FALSE, reason |-> ""]

\* One Submit invocation: its position, its alert, what GetByFingerprint
\* gave it (found, existing), the Result it built, what it returned (ret, or
\* err for a nil SubmitResult and an error), whether it called Put and
\* started a goroutine, the Store calls it made (storeCalls) and the one
\* that returned an error (failedCall), whether its context has been
\* cancelled (ctxDone); activeBefore and idsBefore are the store as it was
\* at the GetByFingerprint (the ids stored, those of them with the alert's
\* fingerprint that were pending or in_progress), stuckBefore those of the
\* latter whose goroutine had already ended.
SubmitIdle ==
    [pc |-> "idle", al |-> NoAlert, found |-> FALSE, existing |-> NoResult,
     result |-> NoResult, ret |-> NoSubmitResult, put |-> FALSE, spawned |-> FALSE,
     activeBefore |-> {}, idsBefore |-> {}, stuckBefore |-> {},
     err |-> FALSE, storeCalls |-> <<>>, failedCall |-> "", ctxDone |-> FALSE]

\* The stash of buildOnTurn's closure.
NoStash == [set |-> FALSE, msgID |-> 0, seq |-> 0, turn |-> Turn("", <<>>, <<>>, "")]

\* No Submit invocation: the parent of a goroutine that was not started.
NoCall == 0

\* One runTriage goroutine: its position, the Submit that started it, its
\* copy of the Result, the closure's stash, how its final Put ended, what
\* it sent to the store and to the notifier, whether the caller's context was
\* already cancelled when it made its first call (callerDoneAtGet) and
\* whether any call it made found its own context done (ctxSeenDone).
TaskIdle ==
    [pc |-> "idle", parent |-> NoCall, result |-> NoResult, stash |-> NoStash,
     toolCallsAppended |-> <<>>, finalPut |-> "", notified |-> <<>>,
     callerDoneAtGet |-> FALSE, ctxSeenDone |-> FALSE, failedCall |-> ""]

\* Submit's test of the alert's status.
IsFiring_Always(al) == TRUE
IsFiring(al) == al.status = "firing"

\* Submit's dedup test on what GetByFingerprint returned.
IsDuplicate_PendingOnly(ok, existing) == ok /\ existing.status = StatusPending
IsDuplicate_AnyExisting(ok, existing) == ok
IsDuplicate(ok, existing) ==
    ok /\ (existing.status = StatusPending \/ existing.status = StatusInProgress)

\* runTriage's result.Status = StatusInProgress on its copy.
MarkInProgress_Forgotten(r) == r
MarkInProgress(r) == [r EXCEPT !.status = StatusInProgress]

\* context.WithoutCancel(ctx): whether the derived context is done, given
\* whether the parent is.
WithoutCancel_Inherits(parentDone) == parentDone
WithoutCancel(parentDone) == FALSE

\* Whether triageCtx, the context of goroutine t and of its Engine.Run, is
\* done.
TaskCtxDone(t) ==
    /\ t \in DOMAIN tasks
    /\ tasks[t].parent # NoCall
    /\ WithoutCancel(submits[tasks[t].parent].ctxDone)

\* Submit after GetByFingerprint returned an error: the error is returned.
AfterGetError(sub) ==
    [sub EXCEPT !.pc = "done", !.storeCalls = Append(@, "GetByFingerprint"),
                !.failedCall = "GetByFingerprint", !.err = TRUE]

\* Submit up to its dedup decision on store st: the firing check,
\* GetByFingerprint, and for an accepted alert the id and the pending Result.
SubmitBeginOn(st, c, al, fail) ==
    /\ submits[c].pc = "idle"
    \* invocations are numbered as they arrive
    /\ IF c = 1 THEN TRUE ELSE submits[c - 1].pc # "idle"
    /\ LET ex == CallGetByFingerprint(st, results, seen, convs, al.fingerprint,
                                      fail \/ submits[c].ctxDone)
           call == [submits[c] EXCEPT !.al = al,
                        !.idsBefore = {i \in DOMAIN results : results[i].present},
                        !.stuckBefore = {i \in DOMAIN results :
                            /\ tasks[i].pc \in {"abandoned", "done"}
                            /\ results[i].present
                            /\ results[i].fingerprint = al.fingerprint
                            /\ results[i].status \in {StatusPending, StatusInProgress}},
                        !.activeBefore = {i \in DOMAIN results :
                            /\ results[i].present
                            /\ results[i].fingerprint = al.fingerprint
                            /\ results[i].status \in {StatusPending, StatusInProgress}}]
           looked == [call EXCEPT !.storeCalls = Append(@, "GetByFingerprint"),
                                  !.found = ex.ok, !.existing = ex.r]
       IN  IF ~IsFiring(al)
           THEN /\ submits' = [submits EXCEPT ![c] = [call EXCEPT !.pc = "done",
                        !.ret = [id |-> NoId, skipped |-> TRUE, reason |-> "not firing"]]]
                /\ UNCHANGED <<nextId, clock>>
           ELSE IF ex.err
           THEN /\ submits' = [submits EXCEPT ![c] = AfterGetError(call)]
                /\ UNCHANGED <<nextId, clock>>
           ELSE IF IsDuplicate(ex.ok, ex.r)
           THEN /\ submits' = [submits EXCEPT ![c] = [looked EXCEPT !.pc = "done",
                        !.ret = [id |-> NoId, skipped |-> TRUE, reason |-> "duplicate"]]]
                /\ UNCHANGED <<nextId, clock>>
           ELSE /\ submits' = [submits EXCEPT ![c] = [looked EXCEPT !.pc = "put",
                        !.result = [NoResult EXCEPT
                            !.id = nextId, !.fingerprint = al.fingerprint,
                            !.status = StatusPending, !.alert = "HighCPU",
                            !.severity = "critical", !.summary = "cpu high",
                            !.createdAt = clock]]]
                /\ nextId' = nextId + 1
                /\ clock' = clock + 1
    /\ UNCHANGED <<results, seen, tasks, eng, convs, client, sdk>>

SubmitBegin(c, al) == SubmitBeginOn(MemStore, c, al, FALSE)

\* Submit after Put returned: the error returned, or the goroutine started
\* and the id returned.
AfterPut_ErrorIgnored(sub, r, putErr) ==
    [sub EXCEPT !.pc = "done", !.put = TRUE, !.storeCalls = Append(@, "Put"),
                !.failedCall = IF putErr THEN "Put" ELSE @,
                !.spawned = TRUE,
                !.ret = [id |-> r.id, skipped |-> FALSE, reason |-> ""]]
AfterPut(sub, r, putErr) ==
    IF putErr
    THEN [sub EXCEPT !.pc = "done", !.put = TRUE, !.storeCalls = Append(@, "Put"),
                     !.failedCall = "Put", !.err = TRUE]
    ELSE [sub EXCEPT !.pc = "done", !.put = TRUE, !.storeCalls = Append(@, "Put"),
                     !.spawned = TRUE,
                     !.ret = [id |-> r.id, skipped |-> FALSE, reason |-> ""]]

\* Submit from Store.Put on: the pending Result stored, the goroutine
\* started on a context that survives the caller's, the id returned.
SubmitPutOn(st, c, fail) ==
    /\ submits[c].pc = "put"
    /\ LET r == submits[c].result
           p == CallPut(st, results, seen, r, fail \/ submits[c].ctxDone)
           sub == AfterPut(submits[c], r, p.err)
       IN  /\ results' = p.results
           /\ seen' = p.seen
           /\ tasks' = IF sub.spawned
                       THEN [tasks EXCEPT ![r.id] =
                                [TaskIdle EXCEPT !.pc = "get", !.parent = c]]
                       ELSE tasks
           /\ submits' = [submits EXCEPT ![c] = sub]
    /\ UNCHANGED <<nextId, clock, eng, convs, client, sdk>>

SubmitPut(c) == SubmitPutOn(MemStore, c, FALSE)

\* The caller of Submit cancels the context it passed.
CancelCaller(c) ==
    /\ submits[c].pc # "idle"
    /\ ~submits[c].ctxDone
    /\ submits' = [submits EXCEPT ![c].ctxDone = TRUE]
    /\ UNCHANGED <<results, seen, nextId, clock, tasks, eng, convs, client, sdk>>

\* runTriage after the refetch returned: an error or a miss is logged and
\* the goroutine returns; otherwise the Result is marked in_progress.
AfterRefetch(task, g) ==
    IF g.err \/ ~g.ok
    THEN [task EXCEPT !.pc = "abandoned", !.failedCall = "Get"]
    ELSE [task EXCEPT !.pc = "put_in_progress", !.result = MarkInProgress(g.r)]

\* runTriage after the Put to in_progress returned: an error is logged and
\* the goroutine returns before Engine.Run.
AfterPutInProgress_RunsAnyway(task, putErr, ctxDone) ==
    [task EXCEPT !.pc = "run",
                 !.failedCall = IF putErr THEN "PutInProgress" ELSE @,
                 !.ctxSeenDone = @ \/ ctxDone]
AfterPutInProgress(task, putErr, ctxDone) ==
    IF putErr
    THEN [task EXCEPT !.pc = "abandoned", !.failedCall = "PutInProgress",
                      !.ctxSeenDone = @ \/ ctxDone]
    ELSE [task EXCEPT !.pc = "run", !.ctxSeenDone = @ \/ ctxDone]

\* runTriage: the refetch by id.
TaskGetOn(st, t, fail) ==
    /\ tasks[t].pc = "get"
    /\ LET g == CallGet(st, results, convs, t, fail \/ TaskCtxDone(t))
           seen1 == [tasks[t] EXCEPT
                        !.callerDoneAtGet = submits[tasks[t].parent].ctxDone,
                        !.ctxSeenDone = TaskCtxDone(t)]
       IN  tasks' = [tasks EXCEPT ![t] =
                AfterRefetch(seen1, g)]
    /\ UNCHANGED <<results, seen, nextId, clock, submits, eng, convs, client, sdk>>

TaskGet(t) == TaskGetOn(MemStore, t, FALSE)

\* runTriage: the Put to in_progress, then Engine.Run is entered with the
\* closure of buildOnTurn; when the Put fails the goroutine returns.
TaskPutInProgressOn(st, t, fail) ==
    /\ tasks[t].pc = "put_in_progress"
    /\ LET p == CallPut(st, results, seen, tasks[t].result, fail \/ TaskCtxDone(t))
           task == AfterPutInProgress(tasks[t], p.err, TaskCtxDone(t))
       IN  /\ results' = p.results
           /\ seen' = p.seen
           /\ tasks' = [tasks EXCEPT ![t] = task]
           /\ eng' = IF task.pc = "run"
                     THEN [eng EXCEPT ![t] = RunStartLocals("persist")]
                     ELSE eng
    /\ UNCHANGED <<nextId, clock, submits, convs, client, sdk>>

TaskPutInProgress(t) == TaskPutInProgressOn(MemStore, t, FALSE)

\* runTriage: Run has returned; rr copied into the Result.
CopyRunResult_StatusOnly(result, rr) ==
    [result EXCEPT !.status = rr.status, !.analysis = rr.analysis]
CopyRunResult(result, rr) ==
    [result EXCEPT !.status = rr.status, !.analysis = rr.analysis,
                   !.toolsUsed = rr.toolsUsed, !.completedAt = rr.completedAt,
                   !.tokensUsed = rr.tokensUsed, !.toolCalls = rr.toolCalls]

\* runTriage after the final Put returned: its error is logged and the
\* goroutine goes on to the notifier.
AfterFinalPut(task, r, putErr, ctxDone) ==
    [task EXCEPT !.pc = "notify", !.result = r,
                 !.finalPut = IF putErr THEN "failed" ELSE "ok",
                 !.ctxSeenDone = @ \/ ctxDone]

\* runTriage's s.notifier.Send(ctx, result): what the notifier was handed,
\* the error it returned, and where the goroutine was (Run returned, final
\* Put attempted) when it was called.
Send_Twice(task, sendErr, runReturned) ==
    LET n == [r |-> task.result, err |-> sendErr, afterRun |-> runReturned,
              afterPut |-> task.finalPut # ""]
    IN  [task EXCEPT !.pc = "done", !.notified = @ \o <<n, n>>]
Send(task, sendErr, runReturned) ==
    [task EXCEPT !.pc = "done",
                 !.notified = Append(@, [r |-> task.result, err |-> sendErr,
                                         afterRun |-> runReturned,
                                         afterPut |-> task.finalPut # ""])]

\* What runTriage does to the store after Send returned: an error is logged
\* as a warning, the stored Result is not touched.
AfterSend_MarksFailed(res, r, sendErr) ==
    IF sendErr /\ res[r.id].present THEN [res EXCEPT ![r.id].status = StatusFailed] ELSE res
AfterSend(res, r, sendErr) == res

\* runTriage from the return of Run to its end, the notifier succeeding:
\* notifier.Send follows the final Put in the same goroutine and reads only
\* the goroutine's own result.
TaskPutFinalOn(st, t) ==
    /\ tasks[t].pc = "run"
    /\ eng[t].pc = "done"
    /\ LET r == CopyRunResult(tasks[t].result, eng[t].rr)
           p == CallPut(st, results, seen, r, TaskCtxDone(t))
       IN  /\ results' = AfterSend(p.results, r, FALSE)
           /\ seen' = p.seen
           /\ tasks' = [tasks EXCEPT ![t] =
                            Send(AfterFinalPut(@, r, p.err, TaskCtxDone(t)), FALSE,
                                 eng[t].pc = "done")]
    /\ UNCHANGED <<nextId, clock, submits, eng, convs, client, sdk>>

TaskPutFinal(t) == TaskPutFinalOn(MemStore, t)

\* The same in two steps, on a database and with a notifier that can fail:
\* the final Put,
TaskFinalPut(st, t, fail) ==
    /\ tasks[t].pc = "run"
    /\ eng[t].pc = "done"
    /\ LET r == CopyRunResult(tasks[t].result, eng[t].rr)
           p == CallPut(st, results, seen, r, fail \/ TaskCtxDone(t))
       IN  /\ results' = p.results
           /\ seen' = p.seen
           /\ tasks' = [tasks EXCEPT ![t] = AfterFinalPut(@, r, p.err, TaskCtxDone(t))]
    /\ UNCHANGED <<nextId, clock, submits, eng, convs, client, sdk>>

\* and notifier.Send.
TaskNotify(t, sendErr) ==
    /\ tasks[t].pc = "notify"
    /\ results' = AfterSend(results, tasks[t].result, sendErr)
    /\ tasks' = [tasks EXCEPT ![t] = Send(@, sendErr, eng[t].pc = "done")]
    /\ UNCHANGED <<seen, nextId, clock, submits, eng, convs, client, sdk>>

\* ------------------------------------------------- per-turn callbacks ---
\* The tool_result blocks of a user turn by tool_use id (a Go map: a later
\* block with the same id replaces an earlier one).
ToolResultsMap(content) ==
    LET idx == {i \in 1..Len(content) : content[i].type = "tool_result"}
        ids == {content[i].toolUseID : i \in idx}
        lastOf(id) == CHOOSE i \in idx :
            /\ content[i].toolUseID = id
            /\ \A j \in idx : content[j].toolUseID = id => j <= i
    IN  [id \in ids |-> content[lastOf(id)]]

\* The closure of buildOnTurn after Store.AppendTurn returned (msgID, err):
\* the stash, and the AppendToolCalls call it makes for a user turn.
buildOnTurn(task, msgID, appendErr, seq, turn) ==
    IF appendErr THEN task
    ELSE IF turn.role = "assistant"
    THEN [task EXCEPT !.stash = [set |-> TRUE, msgID |-> msgID, seq |-> seq, turn |-> turn]]
    ELSE IF ~task.stash.set THEN task
    ELSE [task EXCEPT
            !.toolCallsAppended = Append(@,
                [messageID |-> task.stash.msgID, messageSeq |-> task.stash.seq,
                 turn |-> task.stash.turn, toolResults |-> ToolResultsMap(turn.content),
                 atSeq |-> seq]),
            !.stash = [@ EXCEPT !.set = FALSE, !.turn = NoStash.turn]]

\* What onTurn returns to notifyTurn: the callback of the Service returns
\* the error of its AppendTurn (e.onTurnErr; memstore has none), the failing
\* one always an error.
onTurnFails(e) == e.cb = "error" \/ (e.cb = "persist" /\ e.onTurnErr)

\* notifyTurn: nothing for a nil callback, else onTurn(seq, &conv.Turns[seq])
\* with seq the index of the turn just appended; an error it returns is
\* logged as a warning and nothing else.
notifyTurn_DropsTurnOnError(e) ==
    IF e.cb = "nil" THEN e
    ELSE [e EXCEPT !.observed = Append(@, [seq |-> Len(e.conv) - 1,
                                           role |-> e.conv[Len(e.conv)].role]),
                   !.warned = @ + (IF onTurnFails(e) THEN 1 ELSE 0),
                   !.conv = IF onTurnFails(e) THEN SubSeq(@, 1, Len(@) - 1) ELSE @]
notifyTurn_SeqIsLength(e) ==
    IF e.cb = "nil" THEN e
    ELSE [e EXCEPT !.observed = Append(@, [seq |-> Len(e.conv),
                                           role |-> e.conv[Len(e.conv)].role]),
                   !.warned = @ + (IF onTurnFails(e) THEN 1 ELSE 0)]
notifyTurn(e) ==
    IF e.cb = "nil" THEN e
    ELSE [e EXCEPT !.observed = Append(@, [seq |-> Len(e.conv) - 1,
                                           role |-> e.conv[Len(e.conv)].role]),
                   !.warned = @ + (IF onTurnFails(e) THEN 1 ELSE 0)]

\* The callback's s.store.AppendTurn(ctx, triageID, seq, turn) for the turn
\* run r has just recorded.
AppendTurnCall(st, r, fail) ==
    CallAppendTurn(st, results, convs, r, Len(eng[r].conv) - 1,
                   eng[r].conv[Len(eng[r].conv)], fail \/ TaskCtxDone(r))

\* What the callback of run r does to the store st and to its task.
OnTurnEffectOn(st, r, fail) ==
    LET e == eng[r]
        seq == Len(e.conv) - 1
        turn == e.conv[Len(e.conv)]
        a == AppendTurnCall(st, r, fail)
    IN  IF e.cb = "persist"
        THEN /\ results' = a.results
             /\ convs' = a.convs
             /\ tasks' = [tasks EXCEPT ![r] =
                    [buildOnTurn(@, a.msgID, a.err, seq, turn) EXCEPT
                        !.ctxSeenDone = @ \/ TaskCtxDone(r)]]
        ELSE UNCHANGED <<results, tasks, convs>>

\* ----------------------------------------------------- engine actions ---
\* What provider.Send may return on the next call of run r: an error when
\* the context of the run is done.
CtxError == ErrResponse(<<"context", "canceled">>)
ProviderChoices(r, e) ==
    IF TaskCtxDone(r) THEN {CtxError}
    ELSE IF e.calls >= MaxFreeCalls THEN {e.last}
    ELSE IF r = StandaloneRun THEN Responses
    ELSE SvcResponses

\* Engine.Run called on its own, with no callback, one that returns nil or
\* one that always fails.
RunStart(cb) ==
    /\ eng[StandaloneRun].pc = "idle"
    /\ eng' = [eng EXCEPT ![StandaloneRun] = RunStartLocals(cb)]
    /\ UNCHANGED <<results, seen, nextId, clock, submits, tasks, convs, client, sdk>>

\* The pre-call budget check of one iteration.
EngineCheck(r) ==
    /\ eng[r].pc = "check"
    /\ eng' = [eng EXCEPT ![r] = PreCheck(@, clock)]
    /\ UNCHANGED <<results, seen, nextId, clock, submits, tasks, convs, client, sdk>>

\* provider.Send and what Run does with its answer up to notifyTurn, the
\* provider answering from answers.
EngineSendFrom(r, answers) ==
    /\ eng[r].pc = "send"
    /\ eng[r].calls < MaxCalls
    /\ \E resp \in answers :
        eng' = [eng EXCEPT ![r] = OnResponse(@, resp, clock)]
    /\ UNCHANGED <<results, seen, nextId, clock, submits, tasks, convs, client, sdk>>

EngineSend(r) == EngineSendFrom(r, ProviderChoices(r, eng[r]))

\* notifyTurn for the assistant turn, then the dispatch on the stop reason.
EngineNotifyAssistantOn(st, r, fail) ==
    /\ eng[r].pc = "notifyA"
    /\ OnTurnEffectOn(st, r, fail)
    /\ eng' = [eng EXCEPT ![r] = AfterAssistantNotify(
                    notifyTurn([@ EXCEPT !.onTurnErr =
                        eng[r].cb = "persist" /\ AppendTurnCall(st, r, fail).err]),
                    clock)]
    /\ UNCHANGED <<seen, nextId, clock, submits, client, sdk>>

EngineNotifyAssistant(r) == EngineNotifyAssistantOn(MemStore, r, FALSE)

\* executeToolCalls for the whole batch, and the user turn appended.
EngineTools(r) ==
    /\ eng[r].pc = "tools"
    /\ \E exec \in (IF eng[r].calls <= MaxFreeCalls
                    THEN ExecChoices(eng[r].resp.content) ELSE {eng[r].lastExec}) :
        eng' = [eng EXCEPT ![r] = OnToolBatch(@, exec)]
    /\ UNCHANGED <<results, seen, nextId, clock, submits, tasks, convs, client, sdk>>

\* notifyTurn for the user turn, then back to the top of the loop.
EngineNotifyUserOn(st, r, fail) ==
    /\ eng[r].pc = "notifyU"
    /\ OnTurnEffectOn(st, r, fail)
    /\ eng' = [eng EXCEPT ![r] = AfterUserNotify(
                    notifyTurn([@ EXCEPT !.onTurnErr =
                        eng[r].cb = "persist" /\ AppendTurnCall(st, r, fail).err]))]
    /\ UNCHANGED <<seen, nextId, clock, submits, client, sdk>>

EngineNotifyUser(r) == EngineNotifyUserOn(MemStore, r, FALSE)

\* ------------------------------------------- a direct caller's state ---
\* What a caller was handed by Get or GetByFingerprint: the struct copy and
\* the value the caller read through it (fields and turns) when it last
\* looked at or wrote it.
ValueOf(r, cv) == [r |-> r, turns |-> TurnsAt(cv, r.conversation)]
NotHeld == [present |-> FALSE, r |-> NoResult, read |-> ValueOf(NoResult, <<>>)]

\* What the store holds: every stored Result with the turns of its
\* conversation.
StoreView(res, cv) == [i \in Ids |-> ValueOf(res[i], cv)]

NoOp == [op |-> "", r |-> NoResult, fp |-> "", before |-> <<>>]
ClientIdle == [ops |-> 0, held |-> NotHeld, last |-> NoOp]

\* ------------------------------------------- the provider adapter -------
\* The blocks a vendor response is made of: two texts, two tool uses, and a
\* block of a kind the adapter has no case for.
VendorBlocks ==
    { [type |-> "text", text |-> <<"disk">>, id |-> "", name |-> ""],
      [type |-> "text", text |-> <<"full">>, id |-> "", name |-> ""],
      [type |-> "tool_use", text |-> <<>>, id |-> "tu-1", name |-> "query_metrics"],
      [type |-> "tool_use", text |-> <<>>, id |-> "tu-2", name |-> "query_logs"],
      [type |-> "thinking", text |-> <<>>, id |-> "", name |-> ""] }

VendorStops == {"end_turn", "tool_use", "pause_turn"}

\* The vendor responses of at most MaxBlocks blocks.
VendorMessages ==
    { [content |-> c, stopReason |-> sr, usage |-> <<100, 50>>] :
        c \in UNION {[1..n -> VendorBlocks] : n \in 0..MaxBlocks}, sr \in VendorStops }

\* The zero value of ContentBlock.
ZeroBlock == Block("", <<>>, "", "", "", <<>>, FALSE)

\* The switch of fromSDKResponse on one vendor block: blocks[i] is assigned
\* for "text" and "tool_use" and is left as make() created it otherwise.
fromSDKBlock(b) ==
    IF b.type = "text" THEN [ZeroBlock EXCEPT !.type = "text", !.text = b.text]
    ELSE IF b.type = "tool_use"
    THEN [ZeroBlock EXCEPT !.type = "tool_use", !.id = b.id, !.name = b.name]
    ELSE ZeroBlock

\* The switch on the vendor's stop reason.
fromSDKStopReason(sr) ==
    IF sr = "end_turn" THEN StopEnd
    ELSE IF sr = "tool_use" THEN StopToolUse
    ELSE sr

\* fromSDKResponse: blocks := make([]ContentBlock, len(r.Content)), one
\* element per vendor block.
fromSDKResponse(r) ==
    [isErr |-> FALSE, msg |-> <<>>,
     content |-> [i \in 1..Len(r.content) |-> fromSDKBlock(r.content[i])],
     stopReason |-> fromSDKStopReason(r.stopReason),
     usage |-> r.usage]

\* One Client.Send: the vendor's answer and what Send returned for it.
NoVendorMessage == [content |-> <<>>, stopReason |-> "", usage |-> <<0, 0>>]
SdkIdle == [pc |-> "idle", message |-> NoVendorMessage, response |-> NoResp]

\* ----------------------------------------------------- specifications ---
\* Nothing stored, no Submit made, no goroutine and no run started; calls
\* is the room for Submit invocations and the ids they are handed.
InitWith(calls) ==
    /\ results = [i \in calls |-> NoResult]
    /\ seen = [fp \in Fingerprints |-> NoId]
    /\ nextId = 1
    /\ clock = 1
    /\ submits = [c \in calls |-> SubmitIdle]
    /\ tasks = [t \in calls |-> TaskIdle]
    /\ eng = [r \in {StandaloneRun} \cup calls |-> EngIdle]
    /\ convs = [a \in calls |-> NoConversation]
    /\ client = ClientIdle
    /\ sdk = SdkIdle

Init == InitWith(Ids)

\* The Service over the in-memory store: concurrent Submits and their tasks.
Next ==
    \/ \E c \in 1..MaxSubmits, al \in Alerts : SubmitBegin(c, al)
    \/ \E c \in 1..MaxSubmits : SubmitPut(c)
    \/ \E t \in Ids : TaskGet(t)
    \/ \E t \in Ids : TaskPutInProgress(t)
    \/ \E t \in Ids : EngineCheck(t)
    \/ \E t \in Ids : EngineSend(t)
    \/ \E t \in Ids : EngineNotifyAssistant(t)
    \/ \E t \in Ids : EngineTools(t)
    \/ \E t \in Ids : EngineNotifyUser(t)
    \/ \E t \in Ids : TaskPutFinal(t)

Spec == Init /\ [][Next]_vars

\* One Engine.Run against every provider of the bounded family.
EngineNext ==
    \/ \E cb \in {"nil", "noop", "error"} : RunStart(cb)
    \/ EngineCheck(StandaloneRun)
    \/ EngineSend(StandaloneRun)
    \/ EngineNotifyAssistant(StandaloneRun)
    \/ EngineTools(StandaloneRun)
    \/ EngineNotifyUser(StandaloneRun)

EngineSpec == Init /\ [][EngineNext]_vars

\* ------------------------------------- the Store called directly -------
\* The turns a caller appends.
StoreTurns ==
    { Turn("assistant", <<TextBlock(<<"hi">>)>>, <<10, 5>>, StopEnd),
      Turn("user", <<ToolResultBlock("c1", ToolOutput, FALSE)>>, <<>>, "") }

Called(op, r, fp) ==
    [ops |-> client.ops + 1, held |-> client.held,
     last |-> [op |-> op, r |-> r, fp |-> fp, before |-> StoreView(results, convs)]]

\* Put of a Result the caller has just built, as Submit builds it.
ClientPutNew(fp) ==
    /\ client.ops < MaxStoreOps
    /\ nextId \in Ids
    /\ LET r == [NoResult EXCEPT !.id = nextId, !.fingerprint = fp,
                                 !.status = StatusPending, !.createdAt = clock]
       IN  /\ results' = PutResults(results, r)
           /\ seen' = PutSeen(seen, r)
           /\ client' = Called("put", r, fp)
    /\ nextId' = nextId + 1
    /\ clock' = clock + 1
    /\ UNCHANGED <<submits, tasks, eng, convs, sdk>>

\* Get: the caller holds the copy it was handed.
ClientGet(id) ==
    /\ client.ops < MaxStoreOps
    /\ LET g == StoreGet(results, id)
       IN  client' = [Called("get", NoResult, "") EXCEPT
                        !.held = IF g.ok
                                 THEN [present |-> TRUE, r |-> g.r, read |-> ValueOf(g.r, convs)]
                                 ELSE NotHeld]
    /\ UNCHANGED <<results, seen, nextId, clock, submits, tasks, eng, convs, sdk>>

ClientGetByFingerprint(fp) ==
    /\ client.ops < MaxStoreOps
    /\ LET g == StoreGetByFingerprint(results, seen, fp)
       IN  client' = [Called("get_by_fingerprint", NoResult, fp) EXCEPT
                        !.held = IF g.ok
                                 THEN [present |-> TRUE, r |-> g.r, read |-> ValueOf(g.r, convs)]
                                 ELSE NotHeld]
    /\ UNCHANGED <<results, seen, nextId, clock, submits, tasks, eng, convs, sdk>>

ClientAppendTurn(id, turn) ==
    /\ client.ops < MaxStoreOps
    /\ results' = AppendTurnResults(results, id)
    /\ convs' = AppendTurnConvs(convs, results, id, turn)
    /\ client' = Called("append_turn", NoResult, "")
    /\ UNCHANGED <<seen, nextId, clock, submits, tasks, eng, sdk>>

\* The caller sets the status of the Result it holds and Puts it, as
\* runTriage does.
ClientPutHeld(status) ==
    /\ client.ops < MaxStoreOps
    /\ client.held.present
    /\ LET r == [client.held.r EXCEPT !.status = status, !.analysis = <<"done">>]
       IN  /\ results' = PutResults(results, r)
           /\ seen' = PutSeen(seen, r)
           /\ client' = [Called("put", r, r.fingerprint) EXCEPT
                            !.held = [present |-> TRUE, r |-> r, read |-> ValueOf(r, convs)]]
    /\ UNCHANGED <<nextId, clock, submits, tasks, eng, convs, sdk>>

\* The caller writes to the Result it holds: a field of the struct.
ClientSetField ==
    /\ client.ops < MaxStoreOps
    /\ client.held.present
    /\ LET r == [client.held.r EXCEPT !.summary = "edited"]
       IN  client' = [Called("mutate", r, "") EXCEPT
                        !.held = [present |-> TRUE, r |-> r, read |-> ValueOf(r, convs)]]
    /\ UNCHANGED <<results, seen, nextId, clock, submits, tasks, eng, convs, sdk>>

\* The caller writes to the Result it holds: a turn appended through its
\* Conversation pointer.
ClientAppendToHeld(turn) ==
    /\ client.ops < MaxStoreOps
    /\ client.held.present
    /\ client.held.r.conversation # NilConv
    /\ convs' = [convs EXCEPT ![client.held.r.conversation].turns = Append(@, turn)]
    /\ client' = [Called("mutate", client.held.r, "") EXCEPT
                    !.held = [client.held EXCEPT !.read = ValueOf(client.held.r, convs')]]
    /\ UNCHANGED <<results, seen, nextId, clock, submits, tasks, eng, sdk>>

StoreNext ==
    \/ \E fp \in Fingerprints : ClientPutNew(fp)
    \/ \E id \in Ids : ClientGet(id)
    \/ \E fp \in Fingerprints : ClientGetByFingerprint(fp)
    \/ \E id \in Ids, turn \in StoreTurns : ClientAppendTurn(id, turn)
    \/ \E status \in {StatusInProgress, StatusComplete} : ClientPutHeld(status)
    \/ ClientSetField
    \/ \E turn \in StoreTurns : ClientAppendToHeld(turn)

StoreSpec == Init /\ [][StoreNext]_vars

\* ============================================================ claims ====
Runs == {StandaloneRun} \cup Ids
Calls == 1..MaxSubmits

\* C1: in every reachable state the store holds at most one Result per
\* fingerprint whose status is pending or in_progress.
C1_AtMostOneActivePerFingerprint ==
    \A fp \in Fingerprints :
        Cardinality({i \in Ids : /\ results[i].present
                                 /\ results[i].fingerprint = fp
                                 /\ results[i].status \in {StatusPending, StatusInProgress}}) <= 1

\* C2: a Submit of a firing alert whose GetByFingerprint returned a pending
\* or in_progress Result has returned {skipped, "duplicate"} with no id, has
\* called no Put and has started no task.
C2_ActiveIsSkippedAsDuplicate ==
    \A c \in Calls :
        LET s == submits[c]
        IN  (/\ s.pc # "idle"
             /\ s.al.status = "firing"
             /\ s.found
             /\ s.existing.status \in {StatusPending, StatusInProgress})
            => /\ s.pc = "done"
               /\ s.ret = [id |-> NoId, skipped |-> TRUE, reason |-> "duplicate"]
               /\ ~s.put
               /\ ~s.spawned
               /\ s.result = NoResult

C2_Witness ==
    \E c \in Calls :
        /\ submits[c].pc = "done"
        /\ submits[c].ret.reason = "duplicate"
        /\ submits[c].existing.status = StatusInProgress

\* C3: a Submit of a firing alert made when every stored Result of the
\* fingerprint is terminal is not skipped; its Put stores a new pending
\* Result under an id no stored Result had, starts the task and returns that
\* id, and leaves every other stored Result as it was.
C3_TerminalOnlyIsAccepted ==
    /\ [](\A c \in Calls :
            LET s == submits[c]
            IN  (s.pc # "idle" /\ s.al.status = "firing" /\ s.activeBefore = {})
                => /\ ~s.ret.skipped
                   /\ s.result.id \in Ids \ s.idsBefore
                   /\ s.result.status = StatusPending
                   /\ s.result.fingerprint = s.al.fingerprint
                   /\ s.pc = "done" => /\ s.ret.id = s.result.id
                                       /\ s.put /\ s.spawned
                                       /\ results[s.result.id].present
                                       /\ tasks[s.result.id].pc # "idle")
    /\ [][\A c \in Calls :
            (submits[c].pc = "put" /\ submits'[c].pc = "done")
            => LET id == submits[c].result.id
               IN  /\ ~results[id].present
                   /\ results'[id] = [submits[c].result EXCEPT !.present = TRUE]
                   /\ tasks[id].pc = "idle" /\ tasks'[id].pc = "get"
                   /\ \A j \in Ids \ {id} : results'[j] = results[j]]_vars

C3_Witness ==
    \E c \in Calls :
        /\ submits[c].pc = "done"
        /\ submits[c].found
        /\ submits[c].existing.status \in {StatusComplete, StatusFailed}
        /\ submits[c].activeBefore = {}
        /\ submits[c].ret.id # NoId
        /\ results[submits[c].existing.id].status = submits[c].existing.status

\* C4: the status stored under one triage id only ever goes from absent to
\* pending, from pending to in_progress and from in_progress to a terminal
\* status; a stored terminal status never changes.
C4_StatusTransitions ==
    [][\A i \in Ids :
        LET a == results[i]
            b == results'[i]
        IN  /\ a.present => b.present
            /\ (~a.present /\ b.present) => b.status = StatusPending
            /\ (a.present /\ a.status # b.status)
                => \/ a.status = StatusPending /\ b.status = StatusInProgress
                   \/ /\ a.status = StatusInProgress
                      /\ b.status \notin {StatusPending, StatusInProgress}]_vars

C4_Witness ==
    \E i, j \in Ids :
        /\ i # j
        /\ results[i].status \in {StatusComplete, StatusFailed}
        /\ tasks[i].pc = "done"
        /\ results[j].present
        /\ results[j].fingerprint = results[i].fingerprint
        /\ results[j].status = StatusInProgress

\* ------------------------------------------------- claims on the engine --
ToolUseCount(content) ==
    Cardinality({i \in 1..Len(content) : content[i].type = "tool_use"})

\* C5: Engine.Run returns after finitely many provider calls, whatever the
\* provider answers. A provider may answer every call as it answered the
\* last one, so this holds exactly when no iteration comes back to the
\* pre-call check with both budgets where they stood before its call.
C5_EveryCallConsumesBudget ==
    \A r \in Runs :
        LET e == eng[r]
        IN  (e.pc = "check" /\ e.calls > 0)
            => TokenTotal(e) + e.totalToolCalls > e.progressAtCall

\* C6: once the provider has answered with a stop_reason other than
\* end_turn and tool_use, and the turn has been recorded, Run has returned
\* status complete with the last text block of that answer as analysis.
C6_OtherStopReasonIsTerminal ==
    \A r \in Runs :
        LET e == eng[r]
        IN  (/\ e.calls > 0
             /\ ~e.last.isErr
             /\ e.last.stopReason \notin {StopEnd, StopToolUse}
             /\ e.pc # "notifyA")
            => /\ e.pc = "done"
               /\ e.rr.status = StatusComplete
               /\ e.rr.analysis = LastText(e.last.content)

LastBatch(e) ==
    IF e.calls = 0 \/ e.last.isErr \/ e.last.stopReason # StopToolUse THEN 0
    ELSE ToolUseCount(e.last.content)

C8_TokenBudget ==
    \A r \in Runs :
        LET e == eng[r]
        IN  /\ (e.pc = "done" /\ e.exit = "token_budget")
                => /\ e.rr.inputTokensUsed + e.rr.outputTokensUsed >= MaxTokens
                   /\ e.rr.status = StatusComplete
                   /\ Contains(e.rr.analysis, <<"token", "budget">>)
            /\ e.pc = "send" => TokenTotal(e) < MaxTokens

C8_Witness ==
    /\ eng[StandaloneRun].pc = "done"
    /\ eng[StandaloneRun].exit = "token_budget"
    /\ eng[StandaloneRun].rr.tokensUsed = MaxTokens

\* Every answer so far was a tool_use turn with exactly one tool_use block.
AllSingleToolUse(e) ==
    /\ ~e.last.isErr
    /\ e.toolUseResponses = e.calls
    /\ \A i \in 1..Len(e.conv) :
        e.conv[i].role = "assistant" => ToolUseCount(e.conv[i].content) = 1

\* C9: when every answer is a tool_use turn with one tool_use block and the
\* run does not end on the token budget, Run makes MaxToolRounds provider
\* calls and MaxToolRounds tool executions, no more, and returns status
\* complete, an analysis containing "tool call budget" and tool_calls =
\* MaxToolRounds.
C9_ToolRoundCap ==
    \A r \in Runs :
        LET e == eng[r]
        IN  AllSingleToolUse(e)
            => /\ e.calls <= MaxToolRounds
               /\ e.toolExecs <= MaxToolRounds
               /\ (e.pc = "check" /\ e.calls = MaxToolRounds) => e.totalToolCalls = MaxToolRounds
               /\ (e.pc = "done" /\ e.exit # "token_budget")
                    => /\ e.calls = MaxToolRounds
                       /\ e.toolExecs = MaxToolRounds
                       /\ e.exit = "tool_budget"
                       /\ e.rr.status = StatusComplete
                       /\ Contains(e.rr.analysis, <<"tool", "call", "budget">>)
                       /\ e.rr.toolCalls = MaxToolRounds

C9_Witness ==
    /\ eng[StandaloneRun].pc = "done"
    /\ AllSingleToolUse(eng[StandaloneRun])
    /\ eng[StandaloneRun].calls = MaxToolRounds
    /\ eng[StandaloneRun].exit = "tool_budget"

\* C10: a Run that ended via end_turn returns a conversation of
\* 2 * (provider calls that returned stop_reason tool_use) + 1 turns whose
\* first turn is an assistant turn.
C10_TurnParity ==
    \A r \in Runs :
        LET e == eng[r]
        IN  (e.pc = "done" /\ e.exit = "end_turn")
            => /\ Len(e.rr.conversation) = 2 * e.toolUseResponses + 1
               /\ e.rr.conversation[1].role = "assistant"

\* ------------------------------------- claims on the RunResult totals ---
\* The assistant turns of a conversation, by index.
AssistantTurns(conv) == {i \in 1..Len(conv) : conv[i].role = "assistant"}

RECURSIVE ToolUsesUpTo(_, _)
ToolUsesUpTo(conv, n) ==
    IF n = 0 THEN 0
    ELSE ToolUsesUpTo(conv, n - 1)
            + (IF conv[n].role = "assistant" THEN ToolUseCount(conv[n].content) ELSE 0)
ConvToolUses(conv) == ToolUsesUpTo(conv, Len(conv))

ConvToolNames(conv) ==
    UNION { {conv[i].content[k].name :
                k \in {k \in 1..Len(conv[i].content) : conv[i].content[k].type = "tool_use"}} :
            i \in AssistantTurns(conv) }

RECURSIVE UsageUpTo(_, _)
UsageUpTo(conv, n) ==
    IF n = 0 THEN 0
    ELSE UsageUpTo(conv, n - 1)
            + (IF conv[n].role = "assistant" THEN conv[n].usage[1] + conv[n].usage[2] ELSE 0)
ConvUsage(conv) == UsageUpTo(conv, Len(conv))

\* C11: whenever Run has returned, tool_calls of the RunResult is the number
\* of tool_use blocks in the assistant turns of the returned conversation,
\* whatever the stop_reason of those turns.
C11_ToolCallsCountToolUseBlocks ==
    \A r \in Runs :
        eng[r].pc = "done" => eng[r].rr.toolCalls = ConvToolUses(eng[r].rr.conversation)

\* C12: whenever Run has returned, tools_used is the sorted, duplicate-free
\* list of the names of the tool_use blocks in the assistant turns of the
\* returned conversation.
C12_ToolsUsedAreTheToolUseNames ==
    \A r \in Runs :
        eng[r].pc = "done"
            => eng[r].rr.toolsUsed = sortedKeys(ConvToolNames(eng[r].rr.conversation))

\* C13: whenever Run has returned (end_turn, a budget, a provider error),
\* tokens_in + tokens_out of the RunResult is the sum of input + output usage
\* over the assistant turns of the returned conversation.
C13_TokensAreTheSumOfUsages ==
    \A r \in Runs :
        LET e == eng[r]
        IN  e.pc = "done"
            => /\ e.rr.inputTokensUsed + e.rr.outputTokensUsed = ConvUsage(e.rr.conversation)
               /\ e.rr.tokensUsed = ConvUsage(e.rr.conversation)

C13_Witness ==
    /\ eng[StandaloneRun].pc = "done"
    /\ eng[StandaloneRun].exit = "token_budget"
    /\ Cardinality(AssistantTurns(eng[StandaloneRun].rr.conversation)) = 2
    /\ eng[StandaloneRun].rr.inputTokensUsed = 90000
    /\ eng[StandaloneRun].rr.outputTokensUsed = 70000

\* C15: in one Run with a callback, onTurn has been invoked once for each
\* turn appended so far, in append order, the i-th invocation with seq
\* i - 1 and the i-th turn; while a turn waits for its notification exactly
\* that turn is missing.
C15_OnTurnOncePerTurnInOrder ==
    \A r \in Runs :
        LET e == eng[r]
            pending == IF e.pc \in {"notifyA", "notifyU"} THEN 1 ELSE 0
        IN  e.cb # "nil"
            => /\ Len(e.observed) = Len(e.conv) - pending
               /\ \A i \in 1..Len(e.observed) :
                    /\ e.observed[i].seq = i - 1
                    /\ e.observed[i].role = e.conv[i].role

C15_Witness ==
    /\ eng[StandaloneRun].pc = "done"
    /\ eng[StandaloneRun].cb = "error"
    /\ Len(eng[StandaloneRun].observed) >= 5

\* C19: once provider.Send has returned an error, Run has returned status
\* failed with analysis "LLM error: <message>"; no turn was appended for
\* the failed call (one assistant turn per earlier call), and the RunResult
\* carries the conversation and the totals as they stood before the call.
C19_ProviderErrorFailsTheRun ==
    \A r \in Runs :
        LET e == eng[r]
        IN  (e.calls > 0 /\ e.last.isErr)
            => /\ e.pc = "done"
               /\ e.rr.status = StatusFailed
               /\ e.rr.analysis = <<"LLM", "error:">> \o e.last.msg
               /\ e.rr.conversation = e.conv
               /\ Cardinality(AssistantTurns(e.conv)) = e.calls - 1
               /\ e.rr.tokensUsed + e.rr.toolCalls = e.progressAtCall
               /\ e.rr.toolCalls = e.totalToolCalls
               /\ e.rr.inputTokensUsed = e.totalInputTokens
               /\ e.rr.outputTokensUsed = e.totalOutputTokens

C19_Witness ==
    /\ eng[StandaloneRun].pc = "done"
    /\ eng[StandaloneRun].last.isErr
    /\ eng[StandaloneRun].calls = 2
    /\ eng[StandaloneRun].rr.toolCalls = 2
    /\ eng[StandaloneRun].rr.tokensUsed = 60000

\* The tool_use blocks of a content, by position, in order.
RECURSIVE ToolUseIndexes(_, _)
ToolUseIndexes(content, i) ==
    IF i > Len(content) THEN <<>>
    ELSE (IF content[i].type = "tool_use" THEN <<i>> ELSE <<>>) \o ToolUseIndexes(content, i + 1)

\* The Execute invocations of the batches run so far: one per tool_use block
\* naming a registered tool, in the assistant turns already answered by a
\* user turn.
RECURSIVE ExecutesUpTo(_, _)
ExecutesUpTo(conv, n) ==
    IF n = 0 THEN 0
    ELSE ExecutesUpTo(conv, n - 1)
            + (IF n < Len(conv) /\ conv[n].role = "assistant" /\ conv[n + 1].role = "user"
               THEN Cardinality({k \in 1..Len(conv[n].content) :
                        /\ conv[n].content[k].type = "tool_use"
                        /\ conv[n].content[k].name \in Registered})
               ELSE 0)

\* C20: after a batch the user turn holds one tool_result per tool_use block,
\* in order: is_error with "unknown tool: <name>" for an unregistered tool
\* (and no Execute), is_error with "tool error: <message>" for an Execute
\* that failed, the output otherwise; the batch is run to its end whatever
\* failed, and a Run that then ends via end_turn has status complete.
C20_FailedToolCallsAreFedBack ==
    \A r \in Runs :
        LET e == eng[r]
            idx == ToolUseIndexes(e.resp.content, 1)
        IN  /\ e.pc = "notifyU"
                => /\ Len(e.toolResults) = Len(idx)
                   /\ e.conv[Len(e.conv)] = Turn("user", e.toolResults, <<>>, "")
                   /\ \A k \in 1..Len(idx) :
                        LET block == e.resp.content[idx[k]]
                            res == e.toolResults[k]
                        IN  /\ res.type = "tool_result"
                            /\ res.toolUseID = block.id
                            /\ IF block.name \notin Registered
                               THEN /\ res.isError
                                    /\ res.content = <<"unknown", "tool:", block.name>>
                               ELSE IF e.lastExec[idx[k]] = "err"
                               THEN /\ res.isError
                                    /\ res.content = <<"tool", "error:">> \o ToolError
                               ELSE /\ ~res.isError
                                    /\ res.content = ToolOutput
            /\ e.toolExecs = ExecutesUpTo(e.conv, Len(e.conv))
            /\ (e.pc = "done" /\ e.exit = "end_turn") => e.rr.status = StatusComplete

C20_Witness ==
    LET e == eng[StandaloneRun]
    IN  /\ e.pc = "done"
        /\ e.exit = "end_turn"
        /\ e.rr.status = StatusComplete
        /\ \E i \in 1..Len(e.rr.conversation) :
            /\ e.rr.conversation[i].role = "user"
            /\ Len(e.rr.conversation[i].content) = 2
            /\ e.rr.conversation[i].content[1].content = <<"tool", "error:">> \o ToolError
            /\ e.rr.conversation[i].content[2].content = <<"unknown", "tool:", "nonexistent_tool">>

\* ------------------------------- two runs on the same answers (C14) -----
\* Two Engine.Run invocations answered alike, call by call and tool by
\* tool: one with a callback that returns nil, one with a callback that
\* always returns an error.
NoopRun == 1
ErrorRun == 2
Pair == {NoopRun, ErrorRun}

BothAt(pc) == \A r \in Pair : eng[r].pc = pc

PairStart ==
    /\ BothAt("idle")
    /\ eng' = [eng EXCEPT ![NoopRun] = RunStartLocals("noop"),
                          ![ErrorRun] = RunStartLocals("error")]
    /\ UNCHANGED <<results, seen, nextId, clock, submits, tasks, convs, client, sdk>>

PairCheck ==
    /\ BothAt("check")
    /\ eng' = [r \in DOMAIN eng |-> IF r \in Pair THEN PreCheck(eng[r], clock) ELSE eng[r]]
    /\ UNCHANGED <<results, seen, nextId, clock, submits, tasks, convs, client, sdk>>

PairSend ==
    /\ BothAt("send")
    /\ eng[NoopRun].calls < MaxCalls
    /\ \E resp \in ProviderChoices(StandaloneRun, eng[NoopRun]) :
        eng' = [r \in DOMAIN eng |->
                    IF r \in Pair THEN OnResponse(eng[r], resp, clock) ELSE eng[r]]
    /\ UNCHANGED <<results, seen, nextId, clock, submits, tasks, convs, client, sdk>>

PairNotifyAssistant ==
    /\ BothAt("notifyA")
    /\ eng' = [r \in DOMAIN eng |->
                    IF r \in Pair THEN AfterAssistantNotify(notifyTurn(eng[r]), clock)
                    ELSE eng[r]]
    /\ UNCHANGED <<results, seen, nextId, clock, submits, tasks, convs, client, sdk>>

PairTools ==
    /\ BothAt("tools")
    /\ \E exec \in (IF eng[NoopRun].calls <= MaxFreeCalls
                    THEN ExecChoices(eng[NoopRun].resp.content)
                    ELSE {eng[NoopRun].lastExec}) :
        eng' = [r \in DOMAIN eng |->
                    IF r \in Pair THEN OnToolBatch(eng[r], exec) ELSE eng[r]]
    /\ UNCHANGED <<results, seen, nextId, clock, submits, tasks, convs, client, sdk>>

PairNotifyUser ==
    /\ BothAt("notifyU")
    /\ eng' = [r \in DOMAIN eng |->
                    IF r \in Pair THEN AfterUserNotify(notifyTurn(eng[r])) ELSE eng[r]]
    /\ UNCHANGED <<results, seen, nextId, clock, submits, tasks, convs, client, sdk>>

PairNext ==
    \/ PairStart
    \/ PairCheck
    \/ PairSend
    \/ PairNotifyAssistant
    \/ PairTools
    \/ PairNotifyUser

PairSpec == Init /\ [][PairNext]_vars

\* C14: on the same provider and tool answers, the Run whose callback
\* always fails returns when, and only when, the Run with the no-op
\* callback returns, with the same status, analysis, conversation length,
\* token totals, tool_calls and tools_used.
C14_FailingCallbackChangesNothing ==
    LET a == eng[NoopRun]
        b == eng[ErrorRun]
    IN  /\ a.pc = b.pc
        /\ Len(a.conv) = Len(b.conv)
        /\ a.pc = "done"
            => /\ b.rr.status = a.rr.status
               /\ b.rr.analysis = a.rr.analysis
               /\ Len(b.rr.conversation) = Len(a.rr.conversation)
               /\ b.rr.inputTokensUsed = a.rr.inputTokensUsed
               /\ b.rr.outputTokensUsed = a.rr.outputTokensUsed
               /\ b.rr.tokensUsed = a.rr.tokensUsed
               /\ b.rr.toolCalls = a.rr.toolCalls
               /\ b.rr.toolsUsed = a.rr.toolsUsed

C14_Witness ==
    /\ eng[ErrorRun].pc = "done"
    /\ eng[ErrorRun].cb = "error"
    /\ eng[NoopRun].cb = "noop"
    /\ eng[ErrorRun].exit = "end_turn"
    /\ eng[ErrorRun].warned = 3
    /\ eng[NoopRun].warned = 0
    /\ Len(eng[NoopRun].rr.conversation) = 3

\* ------------------------------------------------ claims on the Store ---
\* C16: a Put whose Result has a nil Conversation, for an id already stored,
\* leaves the stored conversation as it was (the same turns in the same
\* order) and stores the other fields of the Result.
C16_PutWithoutConversationKeepsTurns ==
    LET r == client.last.r
    IN  (/\ client.last.op = "put"
         /\ r.conversation = NilConv
         /\ client.last.before[r.id].r.present)
        => /\ TurnsAt(convs, results[r.id].conversation) = client.last.before[r.id].turns
           /\ results[r.id].conversation = client.last.before[r.id].r.conversation
           /\ [results[r.id] EXCEPT !.conversation = NilConv] = [r EXCEPT !.present = TRUE]
           /\ \A j \in Ids \ {r.id} :
                ValueOf(results[j], convs) = client.last.before[j]

C16_Witness ==
    LET r == client.last.r
    IN  /\ client.last.op = "put"
        /\ r.conversation = NilConv
        /\ r.status = StatusComplete
        /\ client.last.before[r.id].r.status = StatusPending
        /\ Len(client.last.before[r.id].turns) = 2
        /\ results[r.id].status = StatusComplete

\* C17: a Result handed out by Get or GetByFingerprint keeps the value the
\* caller read (fields and turns) whatever the store is asked afterwards,
\* and a write of the caller to that Result leaves what the store holds as
\* it was.
C17_ReturnedResultSharesNothing ==
    /\ client.held.present => ValueOf(client.held.r, convs) = client.held.read
    /\ client.last.op = "mutate" => StoreView(results, convs) = client.last.before

\* The greatest created_at among the stored Results of a fingerprint.
NewestCreatedAt(fp) ==
    LET at == {results[i].createdAt : i \in {i \in Ids : /\ results[i].present
                                                          /\ results[i].fingerprint = fp}}
    IN  CHOOSE m \in at : \A x \in at : x <= m

\* C18: what GetByFingerprint(fp) has just returned is the stored Result of
\* fp with the greatest created_at.
C18_GetByFingerprintReturnsNewest ==
    (client.last.op = "get_by_fingerprint" /\ client.held.present)
        => /\ client.held.r.fingerprint = client.last.fp
           /\ client.held.r.createdAt = NewestCreatedAt(client.last.fp)

\* ------------------------------------------- the OnComplete hook --------
\* C21: the OnComplete hook is invoked exactly once per Engine.Run, on every
\* path on which Run returns (end_turn, tool-call budget, token budget,
\* provider error), never before Run returns, and the status it is handed
\* is the status of the RunResult.
C21_OnCompleteOncePerRun ==
    LET e == eng[StandaloneRun]
    IN  /\ e.pc # "done" => e.completeEvents = <<>>
        /\ e.pc = "done" =>
            /\ e.exit \in {"end_turn", "tool_budget", "token_budget", "llm_error"}
            /\ Len(e.completeEvents) = 1
            /\ e.completeEvents[1].status = e.rr.status

\* A run that ended on a provider error after a tool round: the hook was
\* handed "failed" once.
C21_Witness ==
    LET e == eng[StandaloneRun]
    IN  /\ e.pc = "done"
        /\ e.exit = "llm_error"
        /\ e.totalToolCalls > 0
        /\ e.completeEvents = <<[status |-> StatusFailed, tokens |-> e.rr.tokensUsed,
                                 toolCalls |-> e.rr.toolCalls]>>

\* --------------------------- the Service over the database (PgSpec) -----
\* Concurrent Submits and their goroutines on pgstore; no call fails but
\* for a unique violation.
PgNext ==
    \/ \E c \in 1..MaxSubmits, al \in Alerts : SubmitBeginOn(PgStore, c, al, FALSE)
    \/ \E c \in 1..MaxSubmits : SubmitPutOn(PgStore, c, FALSE)
    \/ \E t \in Ids : TaskGetOn(PgStore, t, FALSE)
    \/ \E t \in Ids : TaskPutInProgressOn(PgStore, t, FALSE)
    \/ \E t \in Ids : EngineCheck(t)
    \/ \E t \in Ids : EngineSend(t)
    \/ \E t \in Ids : EngineNotifyAssistantOn(PgStore, t, FALSE)
    \/ \E t \in Ids : EngineTools(t)
    \/ \E t \in Ids : EngineNotifyUserOn(PgStore, t, FALSE)
    \/ \E t \in Ids : TaskPutFinalOn(PgStore, t)

PgSpec == Init /\ [][PgNext]_vars

\* ----------------- the Service with failing collaborators (FaultSpec) ---
\* Submits on pgstore whose Get, GetByFingerprint and Put calls may fail,
\* with a notifier that may fail and callers that may cancel the context
\* they passed to Submit.
FaultCalls == 1..MaxFaultySubmits

FaultNext ==
    \/ \E c \in FaultCalls, al \in Alerts, fail \in BOOLEAN :
            SubmitBeginOn(PgStore, c, al, fail)
    \/ \E c \in FaultCalls, fail \in BOOLEAN : SubmitPutOn(PgStore, c, fail)
    \/ \E c \in FaultCalls : CancelCaller(c)
    \/ \E t \in Ids, fail \in BOOLEAN : TaskGetOn(PgStore, t, fail)
    \/ \E t \in Ids, fail \in BOOLEAN : TaskPutInProgressOn(PgStore, t, fail)
    \/ \E t \in Ids : EngineCheck(t)
    \/ \E t \in Ids : EngineSend(t)
    \/ \E t \in Ids : EngineNotifyAssistantOn(PgStore, t, FALSE)
    \/ \E t \in Ids : EngineTools(t)
    \/ \E t \in Ids : EngineNotifyUserOn(PgStore, t, FALSE)
    \/ \E t \in Ids, fail \in BOOLEAN : TaskFinalPut(PgStore, t, fail)
    \/ \E t \in Ids, sendErr \in BOOLEAN : TaskNotify(t, sendErr)

FaultSpec == Init /\ [][FaultNext]_vars

\* ------------------------------ the provider adapter (AdapterSpec) ------
\* Client.Send once the vendor has answered: the answer translated.
ClientSend ==
    /\ sdk.pc = "answered"
    /\ sdk' = [sdk EXCEPT !.pc = "done", !.response = fromSDKResponse(sdk.message)]
    /\ UNCHANGED <<results, seen, nextId, clock, submits, tasks, eng, convs, client>>

\* The vendor's answer is any response of the bounded family.
AdapterInit ==
    /\ results = [i \in Ids |-> NoResult]
    /\ seen = [fp \in Fingerprints |-> NoId]
    /\ nextId = 1
    /\ clock = 1
    /\ submits = [c \in 1..MaxSubmits |-> SubmitIdle]
    /\ tasks = [t \in Ids |-> TaskIdle]
    /\ eng = [r \in {StandaloneRun} \cup Ids |-> EngIdle]
    /\ convs = [a \in Ids |-> NoConversation]
    /\ client = ClientIdle
    /\ sdk \in {[SdkIdle EXCEPT !.pc = "answered", !.message = m] : m \in VendorMessages}

AdapterNext == ClientSend

AdapterSpec == AdapterInit /\ [][AdapterNext]_vars

\* ------------------------------------------ Submit: the outcomes --------
Terminal == {StatusComplete, StatusFailed}

\* C22: a Submit of an alert whose status is not "firing" returns
\* {skipped, "not firing"} and has no side effect: it makes no call on the
\* store (so a failing store does not matter to it), generates no id and
\* starts no goroutine, and the step changes nothing but the invocation.
C22_NotFiringIsSkippedWithoutEffect ==
    /\ [](\A c \in FaultCalls :
            (submits[c].pc # "idle" /\ submits[c].al.status # "firing") =>
                /\ submits[c].pc = "done"
                /\ submits[c].ret = [id |-> NoId, skipped |-> TRUE, reason |-> "not firing"]
                /\ ~submits[c].err
                /\ submits[c].storeCalls = <<>>
                /\ ~submits[c].put
                /\ ~submits[c].spawned
                /\ submits[c].result = NoResult
                /\ \A t \in Ids : tasks[t].parent # c)
    /\ [][\A c \in FaultCalls :
            (submits[c].pc = "idle" /\ submits'[c].pc # "idle"
                /\ submits'[c].al.status # "firing") =>
                UNCHANGED <<results, seen, nextId, clock, tasks, eng, convs>>]_vars

C22_Witness ==
    \E c \in FaultCalls :
        /\ submits[c].pc = "done"
        /\ submits[c].al.status = "resolved"
        /\ submits[c].ret.skipped
        /\ submits[c].ret.reason = "not firing"
        /\ nextId = 1

\* C23: when GetByFingerprint or Put returns an error during Submit, Submit
\* returns the error: it returns no SubmitResult (no id) and starts no
\* goroutine, and after a failed GetByFingerprint it does not call Put.
\* Submit returns an error in no other case.
C23_StoreErrorFailsSubmit ==
    \A c \in FaultCalls :
        /\ (submits[c].failedCall # "") <=> submits[c].err
        /\ submits[c].err =>
            /\ submits[c].pc = "done"
            /\ submits[c].ret = NoSubmitResult
            /\ ~submits[c].spawned
            /\ \A t \in Ids : tasks[t].parent # c
        /\ submits[c].failedCall = "GetByFingerprint" =>
            /\ submits[c].storeCalls = <<"GetByFingerprint">>
            /\ ~submits[c].put
            /\ submits[c].result = NoResult
        /\ submits[c].failedCall = "Put" =>
            submits[c].storeCalls = <<"GetByFingerprint", "Put">>

\* A Submit whose Put failed: an id had been generated, nothing is stored
\* under it and no goroutine runs.
C23_Witness ==
    \E c \in FaultCalls :
        /\ submits[c].err
        /\ submits[c].failedCall = "Put"
        /\ submits[c].result.id # NoId
        /\ ~results[submits[c].result.id].present
        /\ tasks[submits[c].result.id].pc = "idle"

\* C24: cancelling the context passed to Submit does not reach the
\* goroutine: no call the goroutine makes on the store or on the provider
\* finds its context done, whenever the caller cancelled, and a goroutine
\* whose final Put succeeded has stored the terminal status Run returned.
C24_TaskSurvivesCallerCancel ==
    \A t \in Ids :
        /\ ~tasks[t].ctxSeenDone
        /\ eng[t].last # CtxError
        /\ eng[t].rr.analysis # LLMErrorAnalysis(CtxError.msg)
        /\ (tasks[t].pc \in {"notify", "done"} /\ tasks[t].finalPut = "ok") =>
            /\ results[t].status = eng[t].rr.status
            /\ results[t].status \in Terminal

\* The caller cancelled after Submit stored the pending Result and before the
\* goroutine made its first call; the goroutine ran the triage to "complete"
\* and persisted it.
C24_Witness ==
    \E t \in Ids :
        /\ tasks[t].pc = "done"
        /\ tasks[t].callerDoneAtGet
        /\ submits[tasks[t].parent].ctxDone
        /\ submits[tasks[t].parent].spawned
        /\ tasks[t].finalPut = "ok"
        /\ eng[t].exit = "end_turn"
        /\ results[t].status = StatusComplete

\* C25: an error from Notifier.Send leaves the stored Result as the final
\* Put wrote it: status and analysis are those Run returned (and when the
\* final Put itself failed, the Result is still the in_progress one); the
\* status is not turned into "failed".
C25_NotifierErrorLeavesResult ==
    \A t \in Ids :
        (tasks[t].pc = "done" /\ tasks[t].notified # <<>> /\ tasks[t].notified[1].err) =>
            IF tasks[t].finalPut = "ok"
            THEN /\ results[t].status = eng[t].rr.status
                 /\ results[t].analysis = eng[t].rr.analysis
                 /\ results[t].completedAt = eng[t].rr.completedAt
                 /\ results[t].tokensUsed = eng[t].rr.tokensUsed
            ELSE /\ results[t].status = StatusInProgress
                 /\ results[t].analysis = <<>>

\* The notifier failed on a triage that ended "complete": the stored Result
\* is "complete" with the analysis of the run.
C25_Witness ==
    \E t \in Ids :
        /\ tasks[t].pc = "done"
        /\ tasks[t].notified[1].err
        /\ tasks[t].finalPut = "ok"
        /\ eng[t].rr.status = StatusComplete
        /\ results[t].status = StatusComplete
        /\ results[t].analysis # <<>>

\* C26: for each accepted Submit whose Engine.Run returns, Notifier.Send is
\* called exactly once (never twice, and once by the time the goroutine
\* ends), after Run returned and after the final Put was attempted, with a
\* Result carrying the id Submit returned and the status and analysis of
\* Run; a goroutine whose Run was never entered, and a skipped or failed
\* Submit, notify nobody.
C26_NotifiedOncePerTriage ==
    /\ \A t \in Ids :
        /\ Len(tasks[t].notified) <= 1
        /\ tasks[t].pc = "done" => Len(tasks[t].notified) = 1
        /\ tasks[t].notified # <<>> =>
            LET n == tasks[t].notified[1]
            IN  /\ eng[t].pc = "done"
                /\ n.afterRun
                /\ n.afterPut
                /\ tasks[t].finalPut \in {"ok", "failed"}
                /\ n.r.id = t
                /\ n.r.status = eng[t].rr.status
                /\ n.r.analysis = eng[t].rr.analysis
                /\ tasks[t].parent \in FaultCalls
                /\ submits[tasks[t].parent].ret = [id |-> t, skipped |-> FALSE, reason |-> ""]
    /\ \A c \in FaultCalls :
        (submits[c].pc = "done" /\ (submits[c].ret.skipped \/ submits[c].err)) =>
            \A t \in Ids : tasks[t].parent # c

\* A triage that failed on a provider error and whose final Put failed too:
\* the notifier was still called once, with the "failed" Result.
C26_Witness ==
    \E t \in Ids :
        /\ tasks[t].pc = "done"
        /\ tasks[t].finalPut = "failed"
        /\ Len(tasks[t].notified) = 1
        /\ tasks[t].notified[1].r.status = StatusFailed
        /\ tasks[t].notified[1].r.analysis = LLMErrorAnalysis(<<"api", "key", "expired">>)
        /\ tasks[t].notified[1].r.id = submits[tasks[t].parent].ret.id

\* ------------------------------------------ the stored Result -----------
\* C27: in every state of the store a Result has completed_at set (non-zero)
\* exactly when its status is terminal (complete or failed).
C27_CompletedAtIffTerminal ==
    \A i \in Ids :
        results[i].present =>
            ((results[i].completedAt # 0) <=> (results[i].status \in Terminal))

\* A finished triage with its completion time next to one still in progress
\* without.
C27_Witness ==
    \E i, j \in Ids :
        /\ results[i].present /\ results[i].status = StatusComplete
        /\ results[i].completedAt >= results[i].createdAt
        /\ results[i].completedAt # 0
        /\ results[j].present /\ results[j].status = StatusInProgress
        /\ results[j].completedAt = 0

\* C28: the stored conversation of a Result changes only by turns appended
\* at its end (the turns stored before stay, in place and unchanged), and the
\* conversation of a Result stored with a terminal status does not change.
C28_ConversationAppendOnly ==
    [][\A i \in Ids :
        results[i].present =>
            LET old == TurnsAt(convs, results[i].conversation)
                new == TurnsAt(convs', results'[i].conversation)
            IN  /\ results'[i].present
                /\ Len(old) <= Len(new)
                /\ SubSeq(new, 1, Len(old)) = old
                /\ new # old => results[i].status = StatusInProgress
                /\ results[i].status \in Terminal => new = old]_vars

\* A Result stored "complete" with the two turns of its triage.
C28_Witness ==
    \E i \in Ids :
        /\ results[i].present
        /\ results[i].status = StatusComplete
        /\ Len(TurnsAt(convs, results[i].conversation)) = 2
        /\ TurnsAt(convs, results[i].conversation) = eng[i].rr.conversation
        /\ tasks[i].pc = "done"

\* ------------------------------------- the partial unique index ---------
\* Two Submits for one fingerprint that both passed the GetByFingerprint
\* check before either had stored its Result, and both went on to Put.
Raced(c1, c2) ==
    /\ c1 # c2
    /\ submits[c1].pc = "done" /\ submits[c2].pc = "done"
    /\ submits[c1].put /\ submits[c2].put
    /\ submits[c1].al.fingerprint = submits[c2].al.fingerprint
    /\ submits[c2].result.id \notin submits[c1].idsBefore
    /\ submits[c1].result.id \notin submits[c2].idsBefore

\* C29 as stated: of two Submits for one fingerprint that both passed the
\* GetByFingerprint check, exactly one has its Put succeed; the other
\* returns an error and starts no goroutine.
C29_ExactlyOnePutSucceeds ==
    \A c1, c2 \in 1..MaxSubmits :
        Raced(c1, c2) =>
            \/ submits[c1].spawned /\ submits[c2].err /\ ~submits[c2].spawned
            \/ submits[c2].spawned /\ submits[c1].err /\ ~submits[c1].spawned

\* C29 amended: with the partial unique index at most one Result per
\* fingerprint is pending or in_progress in every state, and the Put of a
\* Submit fails (Submit returns the error and starts no goroutine) exactly
\* when another Result of the fingerprint is pending or in_progress at that
\* moment; it succeeds when the racing triage has already ended.
C29_AtMostOneActiveWithIndex ==
    /\ [](\A i, j \in Ids :
            (/\ results[i].present /\ results[j].present
             /\ results[i].fingerprint = results[j].fingerprint
             /\ PgActive(results[i].status) /\ PgActive(results[j].status)) => i = j)
    /\ [][\A c \in 1..MaxSubmits :
            (submits[c].pc = "put" /\ submits'[c].pc = "done") =>
                LET others == {j \in Ids :
                        /\ j # submits[c].result.id
                        /\ results[j].present
                        /\ results[j].fingerprint = submits[c].al.fingerprint
                        /\ PgActive(results[j].status)}
                IN  /\ submits'[c].err <=> others # {}
                    /\ submits'[c].spawned <=> others = {}
                    /\ submits'[c].err => /\ results' = results
                                          /\ tasks' = tasks
                                          /\ submits'[c].ret = NoSubmitResult]_vars

\* The race itself: both passed the check, the second Put was refused while
\* the first triage was in progress.
C29_Witness ==
    \E c1, c2 \in 1..MaxSubmits :
        /\ Raced(c1, c2)
        /\ submits[c1].spawned
        /\ submits[c2].err
        /\ submits[c2].failedCall = "Put"
        /\ ~results[submits[c2].result.id].present
        /\ results[submits[c1].result.id].status = StatusInProgress
        /\ tasks[submits[c2].result.id].pc = "idle"

\* ------------------------------------- the provider adapter -------------
IsKept(b) == b.type \in {"text", "tool_use"}

\* C30: the content list the adapter returns holds exactly the text and
\* tool_use blocks of the vendor response, in their order; a vendor block
\* of another kind contributes no element.
C30_OnlyTextAndToolUseKept ==
    sdk.pc = "done" =>
        LET kept == SelectSeq(sdk.message.content, IsKept)
        IN  /\ Len(sdk.response.content) = Len(kept)
            /\ \A i \in 1..Len(kept) :
                /\ sdk.response.content[i].type = kept[i].type
                /\ sdk.response.content[i].text = kept[i].text
                /\ sdk.response.content[i].id = kept[i].id
                /\ sdk.response.content[i].name = kept[i].name

\* C31: when the task's refetch by id misses or errors, or its Put to
\* in_progress fails, the task stops there: Engine.Run is never entered, no
\* turn is appended, the notifier is never called, and the stored Result
\* keeps the status it was last persisted with (pending).
C31_TaskStopsOnEarlyStoreFailure ==
    \A t \in Ids :
        tasks[t].failedCall # "" =>
            /\ tasks[t].pc = "abandoned"
            /\ eng[t].pc = "idle"
            /\ eng[t].calls = 0
            /\ convs[t].turns = <<>>
            /\ tasks[t].toolCallsAppended = <<>>
            /\ tasks[t].notified = <<>>
            /\ results[t].present
            /\ results[t].status = StatusPending
C31_Witness ==
    \E t \in Ids :
        /\ tasks[t].failedCall = "PutInProgress"
        /\ tasks[t].pc = "abandoned"
        /\ results[t].status = StatusPending

\* C32: OnToolCall is invoked exactly once per tool_use block the engine
\* processes, the block naming an unregistered tool included (duration 0,
\* output_bytes 0, is_error true), so the number of OnToolCall invocations
\* of a run equals the run's tool-call total and RunResult.ToolCalls.
C32_OneToolCallHookPerToolUse ==
    \A r \in Runs :
        /\ Len(eng[r].toolCallEvents) = eng[r].totalToolCalls
        /\ eng[r].pc = "done" => Len(eng[r].toolCallEvents) = eng[r].rr.toolCalls
        \* the events of the newest batch (events are only appended)
        /\ \A i \in 1..Len(eng[r].toolCallEvents) :
              i > Len(eng[r].toolCallEvents) - Len(eng[r].toolResults) =>
                  LET ev == eng[r].toolCallEvents[i]
                  IN  ~RegistryGet(ev.name) =>
                          ~ev.timed /\ ev.outputBytes = 0 /\ ev.isErr
C32_Witness ==
    /\ eng[StandaloneRun].pc = "done"
    /\ eng[StandaloneRun].rr.toolCalls >= 2
    /\ \E i \in 1..Len(eng[StandaloneRun].toolCallEvents) :
          ~RegistryGet(eng[StandaloneRun].toolCallEvents[i].name)

\* The last n elements of a sequence.
LastN(seq, n) == SubSeq(seq, Len(seq) - n + 1, Len(seq))

\* C34: within one assistant turn the tool_use blocks are executed one at a
\* time in content order, and the user turn that follows holds exactly one
\* tool_result per tool_use block, in the same order, each with tool_use_id
\* equal to its block's id; blocks of another type produce no tool_result.
\* (Stated of the newest turn of the conversation: turns are only appended,
\* so every user turn is the newest one in the state after its batch.)
C34_OneResultPerToolUseInOrder ==
    \A r \in Runs :
        LET conv == eng[r].conv
            n == Len(conv)
        IN  (n >= 1 /\ conv[n].role = "user") =>
                /\ n > 1
                /\ conv[n - 1].role = "assistant"
                /\ LET idx == ToolUseIndexes(conv[n - 1].content, 1)
                   IN  /\ Len(conv[n].content) = Len(idx)
                       /\ Len(eng[r].toolCallEvents) >= Len(idx)
                       /\ \A k \in 1..Len(idx) :
                             /\ conv[n].content[k].type = "tool_result"
                             /\ conv[n].content[k].toolUseID
                                  = conv[n - 1].content[idx[k]].id
                             /\ LastN(eng[r].toolCallEvents, Len(idx))[k].name
                                  = conv[n - 1].content[idx[k]].name
C34_Witness ==
    LET conv == eng[StandaloneRun].conv
    IN  \E n \in 2..Len(conv) :
            /\ conv[n].role = "user"
            /\ Len(conv[n - 1].content) = 4
            /\ Len(conv[n].content) = 2
            /\ conv[n].content[1].toolUseID = "c1"
            /\ conv[n].content[2].toolUseID = "c2"

C33_StoredConversationEqualsRun ==
    \A t \in Ids :
        tasks[t].pc = "done" =>
            LET g == StoreGet(results, t)
            IN  /\ g.ok
                /\ tasks[t].result.conversation = NilConv
                /\ TurnsAt(convs, g.r.conversation) = eng[t].rr.conversation
                /\ g.r.status = eng[t].rr.status
C33_Witness ==
    \E t \in Ids :
        /\ tasks[t].pc = "done"
        /\ tasks[t].result.conversation = NilConv
        /\ StoreGet(results, t).r.conversation # NilConv
        /\ Len(eng[t].rr.conversation) = 2
        /\ eng[t].rr.conversation[2].role = "user"
        /\ TurnsAt(convs, StoreGet(results, t).r.conversation) = eng[t].rr.conversation

\* C37: whenever Notifier.Send has been invoked for a triage, the store
\* holds that triage's Result with the terminal status that was passed to
\* the notifier, and the triage's final Store.Put did not fail.
C37_NotifiedOnlyWhatIsStored ==
    \A t \in Ids :
        \A i \in 1..Len(tasks[t].notified) :
            /\ tasks[t].notified[i].r.status \in Terminal
            /\ results[t].present
            /\ results[t].status = tasks[t].notified[i].r.status
            /\ tasks[t].finalPut = "ok"

\* The messages a request carries when conv is what has been recorded: the
\* initial prompt, then one message per turn with the turn's role and content.
MessagesOf(conv) ==
    <<Message("user", <<TextBlock(buildInitialPrompt)>>)>>
        \o [i \in 1..Len(conv) |-> Message(conv[i].role, conv[i].content)]

\* C40: in every provider request of a run, messages is the initial user
\* prompt followed by exactly the conversation turns recorded so far, in
\* order, and consecutive messages always have different roles, whatever
\* the sequence of stop reasons.
C40_RequestMirrorsConversationAndAlternates ==
    \A r \in Runs :
        eng[r].pc = "send" =>
            /\ eng[r].messages = MessagesOf(eng[r].conv)
            /\ \A i \in 1..(Len(eng[r].messages) - 1) :
                  eng[r].messages[i].role # eng[r].messages[i + 1].role

\* ------------- one triage whose AppendTurn calls may fail (TurnFaultSpec) --
\* One Submit on the database; every other store call succeeds, the
\* AppendTurn of each of the first MaxFaultyTurns turns may fail.
TurnFaultChoices(e) ==
    IF e.calls >= MaxFreeCalls THEN {e.last} ELSE ToolRoundResponses
TurnFaults(t) ==
    IF Len(eng[t].conv) - 1 < MaxFaultyTurns THEN BOOLEAN ELSE {FALSE}

TurnFaultNext ==
    \/ \E al \in Alerts : SubmitBeginOn(PgStore, 1, al, FALSE)
    \/ SubmitPutOn(PgStore, 1, FALSE)
    \/ \E t \in Ids : TaskGetOn(PgStore, t, FALSE)
    \/ \E t \in Ids : TaskPutInProgressOn(PgStore, t, FALSE)
    \/ \E t \in Ids : EngineCheck(t)
    \/ \E t \in Ids : EngineSendFrom(t, TurnFaultChoices(eng[t]))
    \/ \E t \in Ids : \E fail \in TurnFaults(t) : EngineNotifyAssistantOn(PgStore, t, fail)
    \/ \E t \in Ids : EngineTools(t)
    \/ \E t \in Ids : \E fail \in TurnFaults(t) : EngineNotifyUserOn(PgStore, t, fail)
    \/ \E t \in Ids : TaskPutFinalOn(PgStore, t)

TurnFaultSpec == Init /\ [][TurnFaultNext]_vars

\* C36: every Store.AppendToolCalls call the per-turn callback makes for a
\* user turn at seq s passes the seq and the turn of the assistant turn at
\* seq s - 1, whatever AppendTurn calls succeeded or failed on earlier turns,
\* and at most one call is made per assistant turn.
C36_ToolCallsAttachToPrecedingTurn ==
    \A t \in Ids :
        LET calls == tasks[t].toolCallsAppended
        IN  /\ \A i \in 1..Len(calls) :
                  /\ calls[i].atSeq >= 1
                  /\ calls[i].messageSeq = calls[i].atSeq - 1
                  /\ calls[i].turn = eng[t].conv[calls[i].atSeq]
            /\ \A i, j \in 1..Len(calls) :
                  calls[i].messageSeq = calls[j].messageSeq => i = j

\* ------- the Service on the database, the task's store calls failing ----
\* Concurrent Submits for one fingerprint whose own store calls succeed;
\* the refetch, the Put to in_progress and the final Put of each goroutine
\* may fail.
StuckAlerts == {al \in Alerts : al.fingerprint = "fp-1"}

StuckNext ==
    \/ \E c \in AllCalls, al \in StuckAlerts : SubmitBeginOn(PgStore, c, al, FALSE)
    \/ \E c \in AllCalls : SubmitPutOn(PgStore, c, FALSE)
    \/ \E t \in AllCalls, fail \in BOOLEAN : TaskGetOn(PgStore, t, fail)
    \/ \E t \in AllCalls, fail \in BOOLEAN : TaskPutInProgressOn(PgStore, t, fail)
    \/ \E t \in AllCalls : EngineCheck(t)
    \/ \E t \in AllCalls : EngineSend(t)
    \/ \E t \in AllCalls : EngineNotifyAssistantOn(PgStore, t, FALSE)
    \/ \E t \in AllCalls : EngineTools(t)
    \/ \E t \in AllCalls : EngineNotifyUserOn(PgStore, t, FALSE)
    \/ \E t \in AllCalls, fail \in BOOLEAN : TaskFinalPut(PgStore, t, fail)
    \/ \E t \in AllCalls : TaskNotify(t, FALSE)

StuckSpec == InitWith(AllCalls) /\ [][StuckNext]_vars

\* C39: once a task has stopped while its Result is still stored pending
\* or in_progress (a store failure at the refetch, at the Put to in_progress
\* or at the final Put), that Result never gets a terminal status, and
\* every later Submit of a firing alert with its fingerprint is rejected as
\* a duplicate.
C39_StuckResultStaysAndBlocks ==
    /\ \A t \in AllCalls :
          (tasks[t].pc = "abandoned" \/ (tasks[t].pc = "done" /\ tasks[t].finalPut = "failed"))
              => results[t].present /\ PgActive(results[t].status)
    /\ \A c \in AllCalls :
          \A t \in submits[c].stuckBefore :
              IsFiring(submits[c].al) =>
                  /\ submits[c].pc = "done"
                  /\ submits[c].ret.skipped
                  /\ submits[c].ret.reason = "duplicate"

\* ------------- the Service under fair scheduling (LiveSpec) --------------
\* The Service over the in-memory store, whose calls all succeed, and a
\* provider that always answers. Every goroutine that can take a step
\* eventually takes one; a run that has reached MaxCalls provider calls is
\* one that goes on calling the provider with nothing changed.
LiveChoices(e) ==
    IF e.calls >= MaxFreeCalls THEN {e.last} ELSE LiveResponses

TaskStep(t) ==
    \/ TaskGet(t)
    \/ TaskPutInProgress(t)
    \/ EngineCheck(t)
    \/ EngineSendFrom(t, LiveChoices(eng[t]))
    \/ EngineNotifyAssistant(t)
    \/ EngineTools(t)
    \/ EngineNotifyUser(t)
    \/ TaskPutFinal(t)

LiveNext ==
    \/ \E c \in FaultCalls, al \in Alerts : SubmitBegin(c, al)
    \/ \E c \in FaultCalls : SubmitPut(c)
    \/ \E t \in Ids : TaskStep(t)

LiveSpec ==
    /\ Init
    /\ [][LiveNext]_vars
    /\ \A c \in FaultCalls : WF_vars(SubmitPut(c))
    /\ \A t \in Ids : WF_vars(TaskStep(t))

====
